---------------------------- MODULE Spec2Model ----------------------------
(***************************************************************************)
(* A model of the multi-agent workflow: the Execution Agent's dependency   *)
(* respecting scheduler (ExecutionAgent.process) and the orchestrator's    *)
(* plan -> execute -> verify -> replan loop (MultiAgentSystem.process_task).*)
(***************************************************************************)
EXTENDS Integers, Sequences, FiniteSets, TLC

(***************************************************************************)
(* Bounds of the model.                                                    *)
(***************************************************************************)
\* Number of SubTasks of a Plan handed directly to ExecutionAgent.process.
MaxSubtasks == 2
\* ExecutionResults with success = False that the result list retains; a
\* failing dispatch past this bound still happens, its result is not kept
\* and results_dropped records that.
MaxFailures == 1

(***************************************************************************)
(* models.py                                                               *)
(***************************************************************************)
PENDING == "pending"
IN_PROGRESS == "in_progress"
COMPLETED == "completed"
FAILED == "failed"
NEEDS_REPLANNING == "needs_replanning"
TaskStatus == {PENDING, IN_PROGRESS, COMPLETED, FAILED, NEEDS_REPLANNING}

\* Absent value (Python's None).
None == "None"

\* Texts of the exceptions a work function may raise.
ErrorTexts == {"boom", "timeout"}

\* SubTask ids of a directly executed Plan, and one id that resolves to no
\* SubTask of it.
SubtaskIds == 1..MaxSubtasks
UnknownId == MaxSubtasks + 1

\* Statuses a SubTask may carry when Execute starts: a new one is PENDING,
\* one left by an earlier Execute of the same Plan is COMPLETED or FAILED.
EntryStatuses == {PENDING, COMPLETED, FAILED}

\* SubTask. The id of the i-th SubTask of a planner template is str(i),
\* written i here; order is the same number.
SubTask(id, title, time_est, deps, st) ==
    [id |-> id, title |-> title, order |-> id, status |-> st,
     estimated_time |-> time_est, dependencies |-> deps]

\* Every Plan of MaxSubtasks SubTasks with pairwise distinct ids: the
\* dependencies are any ids, of the Plan or not, cyclic or not.
Plans ==
    { [i \in SubtaskIds |-> SubTask(i, "Implementação", 30, d[i], s[i])] :
        d \in [SubtaskIds -> SUBSET (SubtaskIds \cup {UnknownId})],
        s \in [SubtaskIds -> EntryStatuses] }

\* TaskPriority
LOW == 1
MEDIUM == 2
HIGH == 3
CRITICAL == 4
TaskPriority == {LOW, MEDIUM, HIGH, CRITICAL}

(***************************************************************************)
(* Exact rational numbers, for the rates and means of the metrics.         *)
(***************************************************************************)
RECURSIVE GCD(_, _)
GCD(a, b) == IF b = 0 THEN a ELSE GCD(b, a % b)

\* num / den in lowest terms, den > 0, num >= 0.
Rat(num, den) ==
    LET g == GCD(num, den)
    IN  [num |-> num \div g, den |-> den \div g]
RatInt(n) == [num |-> n, den |-> 1]
RatAdd(x, y) == Rat(x.num * y.den + y.num * x.den, x.den * y.den)
RatMul(x, y) == Rat(x.num * y.num, x.den * y.den)
RatDivInt(x, n) == Rat(x.num, x.den * n)
\* rate * n = count, in exact arithmetic.
IsMeanOf(rate, n, count) == RatMul(rate, RatInt(n)) = RatInt(count)

(***************************************************************************)
(* agents/base_agent.py                                                    *)
(***************************************************************************)
\* performance_metrics of a new agent.
InitialPerformance ==
    [tasks_completed |-> 0, success_rate |-> RatInt(0),
     average_execution_time |-> RatInt(0)]

\* Mutant: the mean is replaced by the latest duration.
update_performance_latest(metrics, execution_time, success) ==
    [tasks_completed |-> metrics.tasks_completed + 1,
     success_rate |-> RatInt(IF success THEN 1 ELSE 0),
     average_execution_time |-> RatInt(execution_time)]

\* update_performance
update_performance(metrics, execution_time, success) ==
    LET total_tasks == metrics.tasks_completed + 1
        current_successes ==
            RatAdd(RatMul(metrics.success_rate, RatInt(total_tasks - 1)),
                   RatInt(IF success THEN 1 ELSE 0))
        current_avg == metrics.average_execution_time
    IN  [tasks_completed |-> total_tasks,
         success_rate |-> RatDivInt(current_successes, total_tasks),
         average_execution_time |->
             RatDivInt(RatAdd(RatMul(current_avg, RatInt(total_tasks - 1)),
                              RatInt(execution_time)),
                       total_tasks)]

\* Measured durations (time.time() differences), in whole seconds.
ElapsedTimes == {1}

(***************************************************************************)
(* agents/planner_agent.py                                                 *)
(***************************************************************************)
\* A template row (title, time_est, deps) as the i-th SubTask, PENDING.
TemplateSubTasks(rows) ==
    [i \in 1..Len(rows) |->
        SubTask(i, rows[i][1], rows[i][2], rows[i][3], PENDING)]

\* Mutant: the first row waits for the last one.
sequential_planning_cyclic ==
    TemplateSubTasks(<<
        <<"Análise de Requisitos", 30, {5}>>,
        <<"Design da Solução", 45, {1}>>,
        <<"Implementação", 120, {2}>>,
        <<"Testes", 60, {3}>>,
        <<"Documentação", 30, {4}>> >>)

\* _sequential_planning
sequential_planning ==
    TemplateSubTasks(<<
        <<"Análise de Requisitos", 30, {}>>,
        <<"Design da Solução", 45, {1}>>,
        <<"Implementação", 120, {2}>>,
        <<"Testes", 60, {3}>>,
        <<"Documentação", 30, {4}>> >>)

\* _parallel_planning
parallel_planning ==
    TemplateSubTasks(<<
        <<"Análise de Requisitos", 30, {}>>,
        <<"Pesquisa de Tecnologias", 45, {}>>,
        <<"Design da Arquitetura", 60, {1}>>,
        <<"Setup do Ambiente", 30, {2}>>,
        <<"Implementação Core", 90, {3, 4}>>,
        <<"Implementação UI", 60, {3, 4}>>,
        <<"Testes Unitários", 45, {5}>>,
        <<"Testes de Integração", 30, {5, 6}>>,
        <<"Documentação", 40, {7, 8}>> >>)

\* _hybrid_planning
hybrid_planning ==
    TemplateSubTasks(<<
        <<"Análise Detalhada", 45, {}>>,
        <<"Prototipagem", 60, {1}>>,
        <<"Validação do Protótipo", 30, {2}>>,
        <<"Arquitetura Detalhada", 75, {3}>>,
        <<"Setup Avançado", 45, {4}>>,
        <<"Implementação Módulo A", 90, {5}>>,
        <<"Implementação Módulo B", 90, {5}>>,
        <<"Integração de Módulos", 60, {6, 7}>>,
        <<"Testes Abrangentes", 75, {8}>>,
        <<"Otimização", 45, {9}>>,
        <<"Documentação Técnica", 30, {10}>>,
        <<"Documentação do Usuário", 30, {10}>> >>)

\* self.planning_strategies[strategy](task)
planning_strategies(strategy) ==
    CASE strategy = "sequential" -> sequential_planning
      [] strategy = "parallel" -> parallel_planning
      [] strategy = "hybrid" -> hybrid_planning

\* A Task as the planner reads it: its priority, the number of its
\* requirements, the number of words of its description and which of the
\* planner's keywords the description contains. description_is_text is
\* False for a malformed item whose description is not a string. The id is
\* the one __post_init__ generated.
Task(priority, n_requirements, n_words, keywords, is_text) ==
    [id |-> "generated-uuid", priority |-> priority,
     n_requirements |-> n_requirements,
     n_words |-> n_words, keywords |-> keywords,
     description_is_text |-> is_text]

\* _analyze_complexity
analyze_complexity(task) ==
    LET complexity_factors ==
              (IF task.n_requirements > 5 THEN 1 ELSE 0)
            + (IF task.n_words > 100 THEN 1 ELSE 0)
            + (IF task.priority \in {HIGH, CRITICAL} THEN 1 ELSE 0)
            + (IF "integração" \in task.keywords THEN 1 ELSE 0)
            + (IF "api" \in task.keywords THEN 1 ELSE 0)
    IN  IF complexity_factors >= 3 THEN "high"
        ELSE IF complexity_factors >= 1 THEN "medium"
        ELSE "low"

\* Mutant: the priority is not looked at.
choose_strategy_by_complexity(complexity, priority) ==
    IF complexity = "high" THEN "hybrid"
    ELSE IF complexity = "medium" THEN "parallel"
    ELSE "sequential"

\* _choose_strategy
choose_strategy(complexity, priority) ==
    IF complexity = "high" \/ priority = CRITICAL THEN "hybrid"
    ELSE IF complexity = "medium" THEN "parallel"
    ELSE "sequential"

\* Sum of the estimated times of a list of SubTasks.
RECURSIVE SumEstimated(_, _)
SumEstimated(sts, i) ==
    IF i > Len(sts) THEN 0 ELSE sts[i].estimated_time + SumEstimated(sts, i + 1)

\* Plan (strategy is not a field of the source's Plan: it is kept to tell
\* the templates apart).
Plan(subtask_list, strategy) ==
    [subtasks |-> subtask_list,
     estimated_total_time |-> SumEstimated(subtask_list, 1),
     strategy |-> strategy]

\* PlannerAgent.process, the try branch: the Plan for a well-formed Task.
planner_process(task) ==
    LET strategy == choose_strategy(analyze_complexity(task), task.priority)
    IN  Plan(planning_strategies(strategy), strategy)


\* The keywords, among those the planner and the verifier look for, that
\* the lower-cased text contains.
KeywordsIn(text) ==
    CASE text = "Execução falhou: " -> {"falhou"}
      [] text = "Tempo de execução muito longo" -> {"tempo"}
      [] text = "Qualidade do código baixa: " -> {"qualidade", "qualidade do código"}
      [] text = "Tempo total de execução muito longo" -> {"tempo"}
      [] text = "Tempo de resposta não melhorou" -> {"tempo"}
      [] text = "Cobertura de testes baixa: " -> {"cobertura"}
      [] text = "Documentação muito breve" -> {"documentação"}
      [] OTHER -> {}

\* An issue string: a fixed text followed by a detail (an error message, a
\* formatted number), either of which may contain a keyword.
Issue(text, detail) == [text |-> text, detail |-> detail]
Contains(issue, keyword) ==
    keyword \in KeywordsIn(issue.text) \cup KeywordsIn(issue.detail)

\* Mutant: quality is looked at before time.
replan_strategy_quality_first(issues) ==
    IF \E issue \in issues : Contains(issue, "qualidade") THEN "hybrid"
    ELSE IF \E issue \in issues : Contains(issue, "tempo") THEN "parallel"
    ELSE "sequential"

\* replan: the strategy chosen from the issues.
replan_strategy(issues) ==
    IF \E issue \in issues : Contains(issue, "tempo") THEN "parallel"
    ELSE IF \E issue \in issues : Contains(issue, "qualidade") THEN "hybrid"
    ELSE "sequential"

\* Mutant: no buffer.
buffered_not(estimated_time) == estimated_time

\* int(estimated_time * 1.2)
buffered(estimated_time) == (estimated_time * 12) \div 10

\* PlannerAgent.replan
planner_replan(task, issues) ==
    LET strategy == replan_strategy(issues)
        template == planning_strategies(strategy)
        buffered_subtasks ==
            [i \in 1..Len(template) |->
                [template[i] EXCEPT !.estimated_time = buffered(@)]]
    IN  Plan(buffered_subtasks, strategy)

VARIABLES
    \* ExecutionAgent.process
    subtasks,           \* plan.subtasks: sequence of SubTask
    entry_status,       \* the status of each SubTask when Execute started
    executed_subtasks,  \* executed_subtasks (set of ids)
    ready_subtasks,     \* what is left of this round's ready list
    round_executed,     \* the executed set handed to _get_ready_subtasks
                        \* for the current round
    current,            \* index of the SubTask inside execute_subtask, or 0
    exception,          \* the exception in flight inside execute_subtask
    results,            \* results
    results_dropped,    \* a failed dispatch past MaxFailures was not recorded
    circular_logged,    \* "Possível dependência circular detectada" logged
    executor_metrics,   \* self.executor.performance_metrics
    pc,                 \* position in ExecutionAgent.process
    \* MultiAgentSystem.process_task
    task,                     \* the Task handed in
    task_status,              \* task.status
    max_replanning_attempts,
    replanning_attempts,
    plan,                     \* the current Plan but for its SubTasks
    verification_result,      \* the last VerificationResult, or Unbound
    fault,                    \* the exception caught by process_task, or None
    summary,                  \* what process_task returned, or NoResult
    system_metrics,           \* self.system_metrics
    planner_metrics,          \* self.planner.performance_metrics
    verifier_metrics,         \* self.verifier.performance_metrics
    calls,                    \* calls made so far to the three agents
    phase,                    \* position in process_task
    \* Several calls on one system
    observations,             \* the observations applied to the metrics so
                              \* far, in order
    threads,                  \* per thread inside _update_system_metrics:
                              \* its arguments, locals and position
    \* The planner's objects
    heap,                     \* the SubTask objects created so far, by
                              \* address
    plan_log,                 \* the Plans returned so far by process and
                              \* replan, with the arguments of the call
    \* The caller's side
    cancel_requested          \* the caller has asked for the call to be
                              \* cancelled

exec_vars == <<subtasks, entry_status, executed_subtasks, ready_subtasks,
               round_executed, current, exception, results, results_dropped,
               circular_logged, executor_metrics, pc>>

orch_vars == <<task, task_status, max_replanning_attempts, replanning_attempts,
               plan, verification_result, fault, summary, system_metrics,
               planner_metrics, verifier_metrics, calls, phase>>

aux_vars == <<observations, threads, heap, plan_log, cancel_requested>>
vars == <<exec_vars, orch_vars, aux_vars>>

(***************************************************************************)
(* agents/execution_agent.py                                               *)
(***************************************************************************)
RECURSIVE ReadyFrom(_, _, _)
ReadyFrom(sts, executed, i) ==
    IF i > Len(sts) THEN <<>>
    ELSE (IF sts[i].id \in executed \/ sts[i].status = COMPLETED
          THEN <<>>
          ELSE IF \A dep_id \in sts[i].dependencies : dep_id \in executed
               THEN <<i>>
               ELSE <<>>)
         \o ReadyFrom(sts, executed, i + 1)

\* Mutant of _get_ready_subtasks: any() in place of all(), one executed
\* dependency is enough.
get_ready_subtasks_any(sts, executed) ==
    SelectSeq([i \in 1..Len(sts) |-> i],
              LAMBDA i : /\ ~(sts[i].id \in executed \/ sts[i].status = COMPLETED)
                         /\ \/ sts[i].dependencies = {}
                            \/ \E dep_id \in sts[i].dependencies : dep_id \in executed)

\* Mutant of _get_ready_subtasks: executed and COMPLETED SubTasks are not
\* skipped.
get_ready_subtasks_no_skip(sts, executed) ==
    SelectSeq([i \in 1..Len(sts) |-> i],
              LAMBDA i : \A dep_id \in sts[i].dependencies : dep_id \in executed)

\* Mutant of _get_ready_subtasks: only the executed set is looked at, not
\* the status.
get_ready_subtasks_ignore_status(sts, executed) ==
    SelectSeq([i \in 1..Len(sts) |-> i],
              LAMBDA i : /\ sts[i].id \notin executed
                         /\ \A dep_id \in sts[i].dependencies : dep_id \in executed)

\* Mutant of _get_ready_subtasks: the dependencies are not looked at.
get_ready_subtasks_no_deps(sts, executed) ==
    SelectSeq([i \in 1..Len(sts) |-> i],
              LAMBDA i : ~(sts[i].id \in executed \/ sts[i].status = COMPLETED))

\* _get_ready_subtasks: the indices, in the Plan's order, of the SubTasks
\* neither executed nor COMPLETED whose dependencies are all executed.
get_ready_subtasks(sts, executed) == ReadyFrom(sts, executed, 1)

\* The ExecutionResult execute_subtask builds when the work function returns.
SuccessResult(subtask, execution_time) ==
    [subtask_id |-> subtask.id, success |-> TRUE, error_message |-> None,
     execution_time |-> execution_time]

\* The ExecutionResult execute_subtask builds in its except branch.
FailureResult(subtask, err, execution_time) ==
    [subtask_id |-> subtask.id, success |-> FALSE, error_message |-> err,
     execution_time |-> execution_time]

NumFailures(rs) == Cardinality({k \in 1..Len(rs) : ~rs[k].success})

\* Whether the result of a dispatch that raises is still recorded.
FailureRecorded(rs) == NumFailures(rs) < MaxFailures

\* The locals of ExecutionAgent.process when it is entered with the Plan's
\* SubTasks sts.
EnterExecute(sts) ==
    /\ subtasks' = sts
    /\ entry_status' = [i \in DOMAIN sts |-> sts[i].status]
    /\ executed_subtasks' = {}
    /\ ready_subtasks' = <<>>
    /\ round_executed' = {}
    /\ current' = 0
    /\ exception' = None
    /\ results' = <<>>
    /\ results_dropped' = FALSE
    /\ circular_logged' = FALSE
    /\ pc' = "while"

\* The body of the while loop up to the for loop, the ready list not empty.
WhileRound ==
    /\ ready_subtasks' = get_ready_subtasks(subtasks, executed_subtasks)
    /\ round_executed' = executed_subtasks
    /\ pc' = "for"
    /\ UNCHANGED <<subtasks, entry_status, executed_subtasks, current,
                   exception, results, results_dropped, circular_logged,
                   executor_metrics>>

\* Mutant of the break: the diagnostic is not logged.
WhileBreakSilent ==
    /\ pc' = "return"
    /\ UNCHANGED <<subtasks, entry_status, executed_subtasks, ready_subtasks,
                   round_executed, current, exception, results,
                   results_dropped, circular_logged, executor_metrics>>

\* if not ready_subtasks: log "Possível dependência circular detectada" and
\* break.
WhileBreak ==
    /\ circular_logged' = TRUE
    /\ pc' = "return"
    /\ UNCHANGED <<subtasks, entry_status, executed_subtasks, ready_subtasks,
                   round_executed, current, exception, results,
                   results_dropped, executor_metrics>>

\* The while condition is false: every SubTask is in the executed set.
WhileExit ==
    /\ pc' = "return"
    /\ UNCHANGED <<subtasks, entry_status, executed_subtasks, ready_subtasks,
                   round_executed, current, exception, results,
                   results_dropped, circular_logged, executor_metrics>>

\* while len(executed_subtasks) < len(plan.subtasks): one evaluation of the
\* loop condition and, when it holds, of the ready list.
While ==
    /\ phase = "executing"
    /\ pc = "while"
    /\ IF Cardinality(executed_subtasks) < Len(subtasks)
       THEN IF get_ready_subtasks(subtasks, executed_subtasks) # <<>>
            THEN WhileRound
            ELSE WhileBreak
       ELSE WhileExit
    /\ UNCHANGED orch_vars
    /\ UNCHANGED aux_vars

\* Mutant: the SubTask is handed to the work function without being set
\* to IN_PROGRESS.
ForNextUnmarked ==
    /\ phase = "executing"
    /\ pc = "for"
    /\ ready_subtasks # <<>>
    /\ current' = Head(ready_subtasks)
    /\ ready_subtasks' = Tail(ready_subtasks)
    /\ pc' = "work"
    /\ UNCHANGED <<subtasks, entry_status, executed_subtasks, round_executed,
                   exception, results, results_dropped, circular_logged,
                   executor_metrics>>
    /\ UNCHANGED orch_vars
    /\ UNCHANGED aux_vars

\* for subtask in ready_subtasks: the next one enters execute_subtask, which
\* marks it IN_PROGRESS before the work function runs.
ForNext ==
    /\ phase = "executing"
    /\ pc = "for"
    /\ ready_subtasks # <<>>
    /\ current' = Head(ready_subtasks)
    /\ ready_subtasks' = Tail(ready_subtasks)
    /\ subtasks' = [subtasks EXCEPT ![Head(ready_subtasks)].status = IN_PROGRESS]
    /\ pc' = "work"
    /\ UNCHANGED <<entry_status, executed_subtasks, round_executed, exception,
                   results, results_dropped, circular_logged, executor_metrics>>
    /\ UNCHANGED orch_vars
    /\ UNCHANGED aux_vars

\* The ready list is exhausted: back to the while test.
ForEnd ==
    /\ phase = "executing"
    /\ pc = "for"
    /\ ready_subtasks = <<>>
    /\ pc' = "while"
    /\ UNCHANGED <<subtasks, entry_status, executed_subtasks, ready_subtasks,
                   round_executed, current, exception, results,
                   results_dropped, circular_logged, executor_metrics>>
    /\ UNCHANGED orch_vars
    /\ UNCHANGED aux_vars

\* The work function returns after execution_time seconds: execute_subtask
\* records the observation and returns a successful result, process appends
\* it, adds the SubTask to the executed set and marks it COMPLETED.
WorkReturns(execution_time) ==
    /\ phase = "executing"
    /\ pc = "work"
    /\ executor_metrics' = update_performance(executor_metrics, execution_time, TRUE)
    /\ results' = Append(results, SuccessResult(subtasks[current], execution_time))
    /\ executed_subtasks' = executed_subtasks \cup {subtasks[current].id}
    /\ subtasks' = [subtasks EXCEPT ![current].status = COMPLETED]
    /\ current' = 0
    /\ pc' = "for"
    /\ UNCHANGED <<entry_status, ready_subtasks, round_executed, exception,
                   results_dropped, circular_logged>>
    /\ UNCHANGED orch_vars
    /\ UNCHANGED aux_vars

\* The work function (or _determine_strategy) raises err inside the try.
WorkRaises(err) ==
    /\ phase = "executing"
    /\ pc = "work"
    /\ exception' = err
    /\ pc' = "except"
    /\ UNCHANGED <<subtasks, entry_status, executed_subtasks, ready_subtasks,
                   round_executed, current, results, results_dropped,
                   circular_logged, executor_metrics>>
    /\ UNCHANGED orch_vars
    /\ UNCHANGED aux_vars

\* Mutant of the except branch: the exception propagates, process is left
\* without a result for the dispatch.
ExceptBranchPropagates(execution_time) ==
    /\ phase = "executing"
    /\ pc = "except"
    /\ pc' = "return"
    /\ UNCHANGED <<subtasks, entry_status, executed_subtasks, ready_subtasks,
                   round_executed, current, exception, results,
                   results_dropped, circular_logged, executor_metrics>>
    /\ UNCHANGED orch_vars
    /\ UNCHANGED aux_vars

\* Mutant of the except branch: the failed result is returned without
\* update_performance.
ExceptBranchUnobserved(execution_time) ==
    /\ phase = "executing"
    /\ pc = "except"
    /\ IF FailureRecorded(results)
       THEN /\ results' = Append(results,
                  FailureResult(subtasks[current], exception, execution_time))
            /\ UNCHANGED results_dropped
       ELSE /\ results_dropped' = TRUE
            /\ UNCHANGED results
    /\ subtasks' = [subtasks EXCEPT ![current].status = FAILED]
    /\ exception' = None
    /\ current' = 0
    /\ pc' = "for"
    /\ UNCHANGED <<entry_status, executed_subtasks, ready_subtasks,
                   round_executed, circular_logged, executor_metrics>>
    /\ UNCHANGED orch_vars
    /\ UNCHANGED aux_vars

\* except Exception as e, execution_time seconds after the start:
\* execute_subtask records the observation and returns a failed result
\* carrying str(e); process appends it and marks the SubTask FAILED, which
\* stays out of the executed set; the for loop goes on.
ExceptBranch(execution_time) ==
    /\ phase = "executing"
    /\ pc = "except"
    /\ IF FailureRecorded(results)
       THEN /\ executor_metrics' =
                  update_performance(executor_metrics, execution_time, FALSE)
            /\ results' = Append(results,
                  FailureResult(subtasks[current], exception, execution_time))
            /\ UNCHANGED results_dropped
       ELSE /\ results_dropped' = TRUE
            /\ UNCHANGED <<executor_metrics, results>>
    /\ subtasks' = [subtasks EXCEPT ![current].status = FAILED]
    /\ exception' = None
    /\ current' = 0
    /\ pc' = "for"
    /\ UNCHANGED <<entry_status, executed_subtasks, ready_subtasks,
                   round_executed, circular_logged>>
    /\ UNCHANGED orch_vars
    /\ UNCHANGED aux_vars

ExecNext ==
    \/ While
    \/ ForNext
    \/ ForEnd
    \/ \E execution_time \in ElapsedTimes : WorkReturns(execution_time)
    \/ \E err \in ErrorTexts : WorkRaises(err)
    \/ \E execution_time \in ElapsedTimes : ExceptBranch(execution_time)

(***************************************************************************)
(* agents/verification_agent.py                                            *)
(***************************************************************************)
\* Issues the category rules may report for the payloads of successful
\* results, one of them time-flavoured and one quality-flavoured.
PayloadIssues ==
    {Issue("Tempo de execução muito longo", ""),
     Issue("Qualidade do código baixa: ", "0.65")}

\* _verify_individual_result for a failed result: the fixed-form issue.
FailedExecutionIssue(result) == Issue("Execução falhou: ", result.error_message)

\* Mutant: the issues are not searched for the critical keywords.
determine_pass_status_scores_only(meets_scores, issues) == meets_scores

\* _determine_pass_status, meets_scores being whether both aggregate scores
\* reach their thresholds.
determine_pass_status(meets_scores, issues) ==
    /\ meets_scores
    /\ ~\E issue \in issues :
          \E keyword \in {"falhou", "crítico", "erro fatal"} :
              Contains(issue, keyword)

\* VerificationAgent.process, the try branch: the VerificationResults it can
\* return for the results rs, over all payloads of the successful ones. A
\* failed result scores 0 and adds its issue; both scores are 0 when no
\* result succeeded.
verify_outcomes(rs) ==
    LET failed == {k \in 1..Len(rs) : ~rs[k].success}
        succeeded == {k \in 1..Len(rs) : rs[k].success}
        failure_issues == {FailedExecutionIssue(rs[k]) : k \in failed}
        systemic == IF 5 * Cardinality(failed) > Len(rs)
                    THEN {Issue("Alta taxa de falhas na execução", "")}
                    ELSE {}
        payload_issues == IF succeeded = {} THEN {{}} ELSE SUBSET PayloadIssues
        scores == IF succeeded = {} THEN {FALSE} ELSE BOOLEAN
    IN  { [passed |-> determine_pass_status(meets_scores,
                          failure_issues \cup systemic \cup found),
           issues_found |-> failure_issues \cup systemic \cup found] :
            meets_scores \in scores, found \in payload_issues }

(***************************************************************************)
(* multi_agent_system.py                                                   *)
(***************************************************************************)
\* Bound on max_replanning_attempts.
MaxReplanning == 1

\* The Tasks handed to process_task: one per planning strategy, one whose
\* description is not a string, and one whose id the caller has emptied
\* after construction (Task is a mutable dataclass).
SubmittedTasks ==
    {Task(LOW, 2, 10, {}, TRUE),
     Task(HIGH, 2, 10, {}, TRUE),
     Task(CRITICAL, 6, 10, {"api"}, TRUE),
     Task(LOW, 2, 10, {}, FALSE),
     [Task(LOW, 2, 10, {}, TRUE) EXCEPT !.id = ""]}

\* Texts of the exceptions the planner and the verifier may raise.
PlannerError == "'NoneType' object has no attribute 'split'"
VerifierErrors == {"'str' object has no attribute 'get'"}
\* Text of a fault of the environment (an OSError of the print in
\* log_activity) inside replan or inside ExecutionAgent.process.
EnvironmentErrors == {"[Errno 5] Input/output error"}

\* self.system_metrics of a new system.
InitialSystemMetrics ==
    [tasks_processed |-> 0, success_rate |-> RatInt(0),
     average_completion_time |-> RatInt(0), replanning_rate |-> RatInt(0)]

\* Mutant: the metrics are left as they are.
update_system_metrics_skipped(metrics, completion_time, success, attempts) ==
    metrics

\* _update_system_metrics
update_system_metrics(metrics, completion_time, success, attempts) ==
    LET total_tasks == metrics.tasks_processed + 1
        current_successes ==
            RatAdd(RatMul(metrics.success_rate, RatInt(total_tasks - 1)),
                   RatInt(IF success THEN 1 ELSE 0))
        current_avg == metrics.average_completion_time
        current_replanning ==
            RatAdd(RatMul(metrics.replanning_rate, RatInt(total_tasks - 1)),
                   RatInt(1))
    IN  [tasks_processed |-> total_tasks,
         success_rate |-> RatDivInt(current_successes, total_tasks),
         average_completion_time |->
             RatDivInt(RatAdd(RatMul(current_avg, RatInt(total_tasks - 1)),
                              RatInt(completion_time)),
                       total_tasks),
         replanning_rate |->
             IF attempts > 0
             THEN RatDivInt(current_replanning, total_tasks)
             ELSE metrics.replanning_rate]

\* The counts both detailed results carry about the execution results.
ExecutionCounts(rs) ==
    [total_subtasks |-> Len(rs),
     successful_subtasks |-> Cardinality({k \in 1..Len(rs) : rs[k].success}),
     failed_subtasks |-> Cardinality({k \in 1..Len(rs) : ~rs[k].success})]

\* The detailed results are dicts: keys holds the keys of the dict, the
\* other fields the values that matter here, None where the key is absent.
\* _create_success_result
create_success_result(rs, vr, completion_time, attempts) ==
    [keys |-> {"task_id", "status", "completion_time", "replanning_attempts",
               "plan", "execution", "verification", "agents_performance"},
     status |-> "completed", completion_time |-> completion_time,
     replanning_attempts |-> attempts, failure_reason |-> None,
     error |-> None,
     verification |-> [passed |-> vr.passed,
                       issues_count |-> Cardinality(vr.issues_found)],
     execution |-> ExecutionCounts(rs)]

\* _create_failure_result
create_failure_result(rs, vr, completion_time, attempts) ==
    [keys |-> {"task_id", "status", "completion_time", "replanning_attempts",
               "failure_reason", "final_verification", "execution_summary"},
     status |-> "failed", completion_time |-> completion_time,
     replanning_attempts |-> attempts,
     failure_reason |-> "verification_failed_after_max_replanning",
     error |-> None,
     verification |-> [issues_found |-> vr.issues_found],
     execution |-> ExecutionCounts(rs)]

\* error_result of the except branch
error_result(err, completion_time, attempts) ==
    [keys |-> {"task_id", "status", "error", "completion_time",
               "replanning_attempts"},
     status |-> "failed", completion_time |-> completion_time,
     replanning_attempts |-> attempts, failure_reason |-> None,
     error |-> err, verification |-> None, execution |-> None]

\* Mutant of the loop condition's counterpart below: <= in place of <.
may_replan_inclusive(attempts, max_attempts) == attempts <= max_attempts

\* Mutant: a failed verification always replans.
may_replan_always(attempts, max_attempts) == TRUE

\* if replanning_attempts < max_replanning_attempts
may_replan(attempts, max_attempts) == attempts < max_attempts

\* Mutant: the verdict is not looked at.
verification_passed_always(vr) == TRUE

\* if verification_result.passed
verification_passed(vr) == vr.passed

\* The local verification_result before its first assignment.
Unbound == [bound |-> FALSE, passed |-> FALSE, issues_found |-> {}]

\* Mutant: replan is handed no issue.
issues_for_replan_none(vr) == {}

\* issues = verification_result.issues_found if 'verification_result' in
\* locals() else []
issues_for_replan(vr) == IF vr # Unbound THEN vr.issues_found ELSE {}

\* What the caller holds before process_task returns, and when it returns
\* None.
NoResult ==
    [keys |-> {},
     status |-> None, completion_time |-> None, replanning_attempts |-> None,
     failure_reason |-> None, error |-> None, verification |-> None,
     execution |-> None]

\* No call made yet; replan_issues holds the issues handed to the latest
\* replan call.
NoCalls ==
    [process |-> 0, replan |-> 0, execute |-> 0, verify |-> 0,
     replan_issues |-> <<>>]

\* Nothing of ExecutionAgent.process is running.
ExecIdle ==
    /\ subtasks = <<>>
    /\ entry_status = <<>>
    /\ executed_subtasks = {}
    /\ ready_subtasks = <<>>
    /\ round_executed = {}
    /\ current = 0
    /\ exception = None
    /\ results = <<>>
    /\ results_dropped = FALSE
    /\ circular_logged = FALSE
    /\ pc = "idle"

\* A new MultiAgentSystem, process_task about to be called.
OrchInit ==
    /\ ExecIdle
    /\ executor_metrics = InitialPerformance
    /\ task \in SubmittedTasks
    /\ task_status = PENDING
    /\ max_replanning_attempts \in -1..MaxReplanning
    /\ replanning_attempts = 0
    /\ plan = None
    /\ verification_result = Unbound
    /\ fault = None
    /\ summary = NoResult
    /\ system_metrics = InitialSystemMetrics
    /\ planner_metrics = InitialPerformance
    /\ verifier_metrics = InitialPerformance
    /\ calls = NoCalls
    /\ phase = "start"
    /\ observations = <<>>
    /\ threads = <<>>
    /\ heap = <<>>
    /\ plan_log = <<>>
    /\ cancel_requested = FALSE

\* task.status = IN_PROGRESS; replanning_attempts = 0
ProcessTaskStart ==
    /\ phase = "start"
    /\ task_status' = IN_PROGRESS
    /\ replanning_attempts' = 0
    /\ phase' = "loop"
    /\ UNCHANGED <<task, max_replanning_attempts, plan, verification_result,
                   fault, summary, system_metrics, planner_metrics,
                   verifier_metrics, calls>>
    /\ UNCHANGED exec_vars
    /\ UNCHANGED aux_vars

\* while replanning_attempts <= max_replanning_attempts: the body is entered.
LoopEnter ==
    /\ phase = "loop"
    /\ replanning_attempts <= max_replanning_attempts
    /\ phase' = "planning"
    /\ UNCHANGED <<task, task_status, max_replanning_attempts,
                   replanning_attempts, plan, verification_result, fault,
                   summary, system_metrics, planner_metrics, verifier_metrics,
                   calls>>
    /\ UNCHANGED exec_vars
    /\ UNCHANGED aux_vars

\* The loop condition is false: process_task falls off its end and returns
\* None.
LoopExit ==
    /\ phase = "loop"
    /\ ~(replanning_attempts <= max_replanning_attempts)
    /\ summary' = NoResult
    /\ phase' = "returned"
    /\ UNCHANGED <<task, task_status, max_replanning_attempts,
                   replanning_attempts, plan, verification_result, fault,
                   system_metrics, planner_metrics, verifier_metrics, calls>>
    /\ UNCHANGED exec_vars
    /\ UNCHANGED aux_vars

\* replanning_attempts == 0: plan = self.planner.process(task)
PlanFirst(elapsed) ==
    /\ phase = "planning"
    /\ replanning_attempts = 0
    /\ task.description_is_text
    /\ plan' = [planner_process(task) EXCEPT !.subtasks = None]
    /\ subtasks' = planner_process(task).subtasks
    /\ planner_metrics' = update_performance(planner_metrics, elapsed, TRUE)
    /\ calls' = [calls EXCEPT !.process = @ + 1]
    /\ phase' = "planned"
    /\ UNCHANGED <<task, task_status, max_replanning_attempts,
                   replanning_attempts, verification_result, fault, summary,
                   system_metrics, verifier_metrics>>
    /\ UNCHANGED <<entry_status, executed_subtasks, ready_subtasks,
                   round_executed, current, exception, results,
                   results_dropped, circular_logged, executor_metrics, pc>>
    /\ UNCHANGED aux_vars

\* The same call on a malformed Task: _analyze_complexity raises, process
\* records the failure and re-raises.
PlanFirstRaises(elapsed) ==
    /\ phase = "planning"
    /\ replanning_attempts = 0
    /\ ~task.description_is_text
    /\ planner_metrics' = update_performance(planner_metrics, elapsed, FALSE)
    /\ calls' = [calls EXCEPT !.process = @ + 1]
    /\ fault' = PlannerError
    /\ phase' = "except"
    /\ UNCHANGED <<task, task_status, max_replanning_attempts,
                   replanning_attempts, plan, verification_result, summary,
                   system_metrics, verifier_metrics>>
    /\ UNCHANGED exec_vars
    /\ UNCHANGED aux_vars

\* replanning_attempts != 0: plan = self.planner.replan(task, issues)
Replan ==
    /\ phase = "planning"
    /\ replanning_attempts # 0
    /\ LET issues == issues_for_replan(verification_result)
       IN  /\ plan' = [planner_replan(task, issues) EXCEPT !.subtasks = None]
           /\ subtasks' = planner_replan(task, issues).subtasks
           /\ calls' = [calls EXCEPT !.replan = @ + 1,
                                     !.replan_issues = <<issues>>]
    /\ phase' = "planned"
    /\ UNCHANGED <<task, task_status, max_replanning_attempts,
                   replanning_attempts, verification_result, fault, summary,
                   system_metrics, planner_metrics, verifier_metrics>>
    /\ UNCHANGED <<entry_status, executed_subtasks, ready_subtasks,
                   round_executed, current, exception, results,
                   results_dropped, circular_logged, executor_metrics, pc>>
    /\ UNCHANGED aux_vars

\* The same call, raising err: replan has no handler of its own.
ReplanRaises(err) ==
    /\ phase = "planning"
    /\ replanning_attempts # 0
    /\ calls' = [calls EXCEPT
                    !.replan = @ + 1,
                    !.replan_issues = <<issues_for_replan(verification_result)>>]
    /\ fault' = err
    /\ phase' = "except"
    /\ UNCHANGED <<task, task_status, max_replanning_attempts,
                   replanning_attempts, plan, verification_result, summary,
                   system_metrics, planner_metrics, verifier_metrics>>
    /\ UNCHANGED exec_vars
    /\ UNCHANGED aux_vars

\* execution_results = self.executor.process(plan): the call.
ExecuteCall ==
    /\ phase = "planned"
    /\ EnterExecute(subtasks)
    /\ calls' = [calls EXCEPT !.execute = @ + 1]
    /\ phase' = "executing"
    /\ UNCHANGED <<task, task_status, max_replanning_attempts,
                   replanning_attempts, plan, verification_result, fault,
                   summary, system_metrics, planner_metrics, verifier_metrics>>
    /\ UNCHANGED executor_metrics
    /\ UNCHANGED aux_vars

\* The same call, raising err outside the try of execute_subtask, before
\* the first round.
ExecuteRaises(err) ==
    /\ phase = "planned"
    /\ calls' = [calls EXCEPT !.execute = @ + 1]
    /\ fault' = err
    /\ phase' = "except"
    /\ UNCHANGED <<task, task_status, max_replanning_attempts,
                   replanning_attempts, plan, verification_result, summary,
                   system_metrics, planner_metrics, verifier_metrics>>
    /\ UNCHANGED exec_vars
    /\ UNCHANGED aux_vars

\* The executor returned; verification_result =
\* self.verifier.process(execution_results, task) returns vr.
VerifyReturns(vr, elapsed) ==
    /\ phase = "executing"
    /\ pc = "return"
    /\ vr \in verify_outcomes(results)
    /\ verification_result' = vr
    /\ verifier_metrics' = update_performance(verifier_metrics, elapsed, TRUE)
    /\ calls' = [calls EXCEPT !.verify = @ + 1]
    /\ phase' = "verified"
    /\ UNCHANGED <<task, task_status, max_replanning_attempts,
                   replanning_attempts, plan, fault, summary, system_metrics,
                   planner_metrics>>
    /\ UNCHANGED exec_vars
    /\ UNCHANGED aux_vars

\* The same call, a category rule raising err on the payload of a
\* successful result: process records the failure and re-raises.
VerifyRaises(err, elapsed) ==
    /\ phase = "executing"
    /\ pc = "return"
    /\ \E k \in 1..Len(results) : results[k].success
    /\ verifier_metrics' = update_performance(verifier_metrics, elapsed, FALSE)
    /\ calls' = [calls EXCEPT !.verify = @ + 1]
    /\ fault' = err
    /\ phase' = "except"
    /\ UNCHANGED <<task, task_status, max_replanning_attempts,
                   replanning_attempts, plan, verification_result, summary,
                   system_metrics, planner_metrics>>
    /\ UNCHANGED exec_vars
    /\ UNCHANGED aux_vars

\* if verification_result.passed: COMPLETED, the success result is returned.
Succeed(completion_time) ==
    /\ phase = "verified"
    /\ verification_passed(verification_result)
    /\ task_status' = COMPLETED
    /\ summary' = create_success_result(results, verification_result,
                                        completion_time, replanning_attempts)
    /\ system_metrics' = update_system_metrics(system_metrics, completion_time,
                                               TRUE, replanning_attempts)
    /\ phase' = "returned"
    /\ UNCHANGED <<task, max_replanning_attempts, replanning_attempts, plan,
                   verification_result, fault, planner_metrics,
                   verifier_metrics, calls>>
    /\ UNCHANGED exec_vars
    /\ UNCHANGED aux_vars

\* else, replanning_attempts < max_replanning_attempts: one more attempt,
\* NEEDS_REPLANNING, continue.
Replanning ==
    /\ phase = "verified"
    /\ ~verification_passed(verification_result)
    /\ may_replan(replanning_attempts, max_replanning_attempts)
    /\ replanning_attempts' = replanning_attempts + 1
    /\ task_status' = NEEDS_REPLANNING
    /\ phase' = "loop"
    /\ UNCHANGED <<task, max_replanning_attempts, plan, verification_result,
                   fault, summary, system_metrics, planner_metrics,
                   verifier_metrics, calls>>
    /\ UNCHANGED exec_vars
    /\ UNCHANGED aux_vars

\* else: FAILED, the failure result is returned.
GiveUp(completion_time) ==
    /\ phase = "verified"
    /\ ~verification_passed(verification_result)
    /\ ~may_replan(replanning_attempts, max_replanning_attempts)
    /\ task_status' = FAILED
    /\ summary' = create_failure_result(results, verification_result,
                                        completion_time, replanning_attempts)
    /\ system_metrics' = update_system_metrics(system_metrics, completion_time,
                                               FALSE, replanning_attempts)
    /\ phase' = "returned"
    /\ UNCHANGED <<task, max_replanning_attempts, replanning_attempts, plan,
                   verification_result, fault, planner_metrics,
                   verifier_metrics, calls>>
    /\ UNCHANGED exec_vars
    /\ UNCHANGED aux_vars

\* Mutant of the handler: the exception is raised again.
ExceptHandlerReraises(completion_time) ==
    /\ phase = "except"
    /\ phase' = "raised"
    /\ UNCHANGED <<task, task_status, max_replanning_attempts,
                   replanning_attempts, plan, verification_result, fault,
                   summary, system_metrics, planner_metrics, verifier_metrics,
                   calls>>
    /\ UNCHANGED exec_vars
    /\ UNCHANGED aux_vars

\* except Exception as e: FAILED, the error result is returned.
ExceptHandler(completion_time) ==
    /\ phase = "except"
    /\ task_status' = FAILED
    /\ summary' = error_result(fault, completion_time, replanning_attempts)
    /\ system_metrics' = update_system_metrics(system_metrics, completion_time,
                                               FALSE, replanning_attempts)
    /\ phase' = "returned"
    /\ UNCHANGED <<task, max_replanning_attempts, replanning_attempts, plan,
                   verification_result, fault, planner_metrics,
                   verifier_metrics, calls>>
    /\ UNCHANGED exec_vars
    /\ UNCHANGED aux_vars

OrchNext ==
    \/ ProcessTaskStart
    \/ LoopEnter
    \/ LoopExit
    \/ \E elapsed \in ElapsedTimes : PlanFirst(elapsed)
    \/ \E elapsed \in ElapsedTimes : PlanFirstRaises(elapsed)
    \/ Replan
    \/ \E err \in EnvironmentErrors : ReplanRaises(err)
    \/ ExecuteCall
    \/ \E err \in EnvironmentErrors : ExecuteRaises(err)
    \/ \E elapsed \in ElapsedTimes :
          \E vr \in verify_outcomes(results) : VerifyReturns(vr, elapsed)
    \/ \E elapsed \in ElapsedTimes :
          \E err \in VerifierErrors : VerifyRaises(err, elapsed)
    \/ \E completion_time \in ElapsedTimes : Succeed(completion_time)
    \/ Replanning
    \/ \E completion_time \in ElapsedTimes : GiveUp(completion_time)
    \/ \E completion_time \in ElapsedTimes : ExceptHandler(completion_time)

Next == OrchNext \/ ExecNext

\* MultiAgentSystem.process_task, one call on a new system.
Spec == OrchInit /\ [][Next]_vars

\* ExecutionAgent.process called directly on any Plan by a new agent.
ExecInit ==
    /\ subtasks \in Plans
    /\ entry_status = [i \in DOMAIN subtasks |-> subtasks[i].status]
    /\ executed_subtasks = {}
    /\ ready_subtasks = <<>>
    /\ round_executed = {}
    /\ current = 0
    /\ exception = None
    /\ results = <<>>
    /\ results_dropped = FALSE
    /\ circular_logged = FALSE
    /\ executor_metrics = InitialPerformance
    /\ pc = "while"
    /\ task = None
    /\ task_status = PENDING
    /\ max_replanning_attempts = 0
    /\ replanning_attempts = 0
    /\ plan = None
    /\ verification_result = Unbound
    /\ fault = None
    /\ summary = NoResult
    /\ system_metrics = InitialSystemMetrics
    /\ planner_metrics = InitialPerformance
    /\ verifier_metrics = InitialPerformance
    /\ calls = NoCalls
    /\ phase = "executing"
    /\ observations = <<>>
    /\ threads = <<>>
    /\ heap = <<>>
    /\ plan_log = <<>>
    /\ cancel_requested = FALSE

ExecSpec == ExecInit /\ [][ExecNext]_vars

\* The same, where a step that can be taken is eventually taken: the
\* interpreter keeps running the loop, and every single dispatch returns or
\* raises.
FairExecSpec == ExecSpec /\ WF_vars(ExecNext)

(***************************************************************************)
(* Properties of ExecutionAgent.process                                    *)
(***************************************************************************)
Returned == pc = "return"

\* The ids with an ExecutionResult in rs, and those with a successful one.
ResultIds(rs) == {rs[k].subtask_id : k \in 1..Len(rs)}
SuccessIds(rs) == {rs[k].subtask_id : k \in {j \in 1..Len(rs) : rs[j].success}}

PlanIds(sts) == {sts[i].id : i \in 1..Len(sts)}
DepsOf(sts, id) == UNION {sts[i].dependencies : i \in {j \in 1..Len(sts) : sts[j].id = id}}

\* The ids that id depends on through at most n dependency edges (n >= 1).
RECURSIVE DependsWithin(_, _, _)
DependsWithin(sts, id, n) ==
    IF n = 0 THEN {}
    ELSE DepsOf(sts, id) \cup
         UNION {DependsWithin(sts, d, n - 1) : d \in DepsOf(sts, id)}

\* id depends on dep, directly or transitively.
DependsOn(sts, id, dep) == dep \in DependsWithin(sts, id, Len(sts))

\* The SubTasks on a dependency cycle, and whether the Plan has one.
OnCycle(sts) == {id \in PlanIds(sts) : DependsOn(sts, id, id)}
HasCycle(sts) == OnCycle(sts) # {}

\* C1: a SubTask is dispatched only if every id in its dependencies was in
\* the executed set when the current round's ready list was computed, that
\* is, every dependency has a successful ExecutionResult earlier in the run.
C1_DispatchOnlyWithDependenciesExecuted ==
    pc \in {"work", "except"} =>
        /\ subtasks[current].dependencies \subseteq round_executed
        /\ subtasks[current].dependencies \subseteq SuccessIds(results)

\* C1 witness: a SubTask that has a dependency is inside a dispatch.
C1_Witness ==
    /\ pc = "work"
    /\ subtasks[current].dependencies # {}

\* C2 as claimed: Execute terminates, whatever the Plan and the outcomes of
\* the work functions, each single dispatch returning or raising.
C2_ExecuteTerminates == <>Returned

\* C3 as claimed: the result list holds at most one ExecutionResult per
\* SubTask id, a failed SubTask is not dispatched again.
C3_AtMostOneResultPerSubTask ==
    \A k, l \in 1..Len(results) :
        k # l => results[k].subtask_id # results[l].subtask_id

\* C4 as claimed: after a failed dispatch of a SubTask, no SubTask that
\* depends on it, directly or transitively, is dispatched.
C4_NoDependentAfterFailure ==
    \A k, l \in 1..Len(results) :
        (k < l /\ ~results[k].success) =>
            ~DependsOn(subtasks, results[l].subtask_id, results[k].subtask_id)

\* The state in which a round finds the ready list empty with unexecuted
\* SubTasks left.
EmptyReadySet ==
    /\ pc = "while"
    /\ Cardinality(executed_subtasks) < Len(subtasks)
    /\ get_ready_subtasks(subtasks, executed_subtasks) = <<>>

\* C5 as claimed: after such a round Execute has returned with the
\* diagnostic and not every SubTask is COMPLETED.
C5_Original ==
    circular_logged =>
        /\ Returned
        /\ \E i \in 1..Len(subtasks) : subtasks[i].status # COMPLETED

\* C5 as amended: a round that finds the ready list empty with unexecuted
\* SubTasks left logs the diagnostic and returns, dispatching nothing and
\* nothing follows the return; at that return some SubTask is outside the
\* executed set, and a SubTask outside it is COMPLETED only if it was
\* COMPLETED already when Execute started.
C5_HaltsOnEmptyReadySet ==
    /\ [](circular_logged =>
            /\ Returned
            /\ \E i \in 1..Len(subtasks) : subtasks[i].id \notin executed_subtasks
            /\ \A i \in 1..Len(subtasks) :
                 (subtasks[i].id \notin executed_subtasks
                    /\ subtasks[i].status = COMPLETED)
                 => entry_status[i] = COMPLETED)
    /\ [][EmptyReadySet =>
            /\ circular_logged'
            /\ Returned'
            /\ results' = results
            /\ subtasks' = subtasks]_vars
    /\ [][~Returned]_vars

\* C5 witness: SubTask 1 depends on 2 and 2 on 1, both PENDING at entry;
\* Execute has returned with the diagnostic and no result.
C5_Witness ==
    /\ circular_logged
    /\ Returned
    /\ subtasks[1].dependencies = {2}
    /\ subtasks[2].dependencies = {1}
    /\ entry_status[1] = PENDING
    /\ entry_status[2] = PENDING
    /\ results = <<>>

C7_FaultCapturedRoundContinues ==
    /\ [][pc = "except" =>
            /\ pc' = "for"
            /\ exception' = None
            /\ ready_subtasks' = ready_subtasks
            /\ (FailureRecorded(results) =>
                  /\ Len(results') = Len(results) + 1
                  /\ results'[Len(results')].subtask_id = subtasks[current].id
                  /\ results'[Len(results')].success = FALSE
                  /\ results'[Len(results')].error_message = exception)]_vars
    /\ [][(pc = "for" /\ ready_subtasks # <<>>) =>
            /\ pc' = "work"
            /\ current' = Head(ready_subtasks)]_vars

\* C7 witness: the dispatch of SubTask 1 failed and SubTask 2, of the same
\* ready list, is dispatched next.
C7_Witness ==
    /\ pc = "work"
    /\ current = 2
    /\ results # <<>>
    /\ results[Len(results)].subtask_id = 1
    /\ ~results[Len(results)].success
    /\ results[Len(results)].error_message \in ErrorTexts

(***************************************************************************)
(* Properties of MultiAgentSystem.process_task                             *)
(***************************************************************************)
ProcessTaskReturned == phase = "returned"

\* The verifier returned a VerificationResult that did not pass and
\* process_task has not yet acted on it.
VerificationFailed == phase = "verified" /\ ~verification_result.passed

\* C8: with max_replanning_attempts >= 0, the attempt counter is raised, and
\* replan then called, only after a verification that failed with the
\* counter below max_replanning_attempts; a verification that fails with
\* the counter equal to it makes process_task return FAILED; so one call
\* makes at most max_replanning_attempts replan calls and one Execute call
\* more, and the returned replanning_attempts is at most
\* max_replanning_attempts.
C8_ReplanWithinBudget ==
    /\ [](max_replanning_attempts >= 0 =>
            /\ replanning_attempts <= max_replanning_attempts
            /\ calls.replan <= replanning_attempts
            /\ calls.replan <= max_replanning_attempts
            /\ calls.execute <= max_replanning_attempts + 1
            /\ ((ProcessTaskReturned /\ summary # NoResult) =>
                  summary.replanning_attempts <= max_replanning_attempts))
    /\ [][(max_replanning_attempts >= 0
             /\ replanning_attempts' # replanning_attempts
             /\ phase # "start") =>
            /\ VerificationFailed
            /\ replanning_attempts < max_replanning_attempts
            /\ replanning_attempts' = replanning_attempts + 1]_vars
    /\ [][(max_replanning_attempts >= 0 /\ calls'.replan # calls.replan) =>
            /\ calls'.replan = replanning_attempts
            /\ calls.replan = replanning_attempts - 1
            /\ verification_result # Unbound
            /\ ~verification_result.passed]_vars
    /\ [][(VerificationFailed
             /\ replanning_attempts = max_replanning_attempts) =>
            /\ ProcessTaskReturned'
            /\ task_status' = FAILED
            /\ summary'.status = "failed"]_vars

\* C8 witness: a call with max_replanning_attempts = 1 replanned once, ran
\* Execute twice and returned FAILED after the second failed verification.
C8_Witness ==
    /\ ProcessTaskReturned
    /\ max_replanning_attempts = 1
    /\ calls.replan = 1
    /\ calls.execute = 2
    /\ summary.status = "failed"
    /\ summary.failure_reason = "verification_failed_after_max_replanning"
    /\ summary.replanning_attempts = 1

\* C9: with max_replanning_attempts = 0, a first verification that fails is
\* followed at once by the return of a FAILED result with
\* replanning_attempts = 0, and replan is never called.
C9_ZeroBudgetFailsAtOnce ==
    /\ [][(max_replanning_attempts = 0 /\ VerificationFailed) =>
            /\ ProcessTaskReturned'
            /\ task_status' = FAILED
            /\ summary'.status = "failed"
            /\ summary'.replanning_attempts = 0
            /\ calls' = calls]_vars
    /\ [](max_replanning_attempts = 0 =>
            /\ calls.replan = 0
            /\ calls.verify <= 1)

\* C9 witness: a call with max_replanning_attempts = 0 returned FAILED after
\* its only verification failed.
C9_Witness ==
    /\ ProcessTaskReturned
    /\ max_replanning_attempts = 0
    /\ calls.verify = 1
    /\ verification_result # Unbound
    /\ ~verification_result.passed
    /\ summary.status = "failed"
    /\ summary.replanning_attempts = 0

\* C10: a VerificationResult with passed = True is followed at once by the
\* return of the "completed" result with the Task COMPLETED, so that is the
\* first cycle that passed; nothing is called after a return; and
\* "completed" is returned only when the last VerificationResult passed.
C10_CompletedOnFirstPass ==
    /\ [][(phase = "verified" /\ verification_result.passed) =>
            /\ ProcessTaskReturned'
            /\ summary'.status = "completed"
            /\ task_status' = COMPLETED
            /\ calls' = calls]_vars
    /\ [][~ProcessTaskReturned]_vars
    /\ []((ProcessTaskReturned /\ summary.status = "completed") =>
            /\ verification_result.passed
            /\ task_status = COMPLETED)

\* C10 witness: "completed" was returned by the second cycle, the first
\* verification having failed.
C10_Witness ==
    /\ ProcessTaskReturned
    /\ summary.status = "completed"
    /\ task_status = COMPLETED
    /\ replanning_attempts = 1
    /\ calls.verify = 2

\* C11: PlannerAgent.process is called once, in the first cycle (counter 0),
\* and never again; the Plan of every later cycle comes from replan, the
\* k-th replan call being made in cycle k + 1 with the issues of the
\* VerificationResult that the k-th Verify call returned.
C11_DecomposeOnceThenReplan ==
    /\ [](calls.process <= 1)
    /\ []((max_replanning_attempts >= 0
             /\ phase \notin {"start", "loop", "planning"}) =>
            calls.process = 1)
    /\ [][calls'.process # calls.process =>
            /\ replanning_attempts = 0
            /\ calls.execute = 0]_vars
    /\ [][calls'.execute # calls.execute =>
            calls'.execute = calls.process + calls.replan]_vars
    /\ [][calls'.replan # calls.replan =>
            /\ replanning_attempts >= 1
            /\ calls'.replan = calls.verify
            /\ calls'.replan = calls.execute
            /\ verification_result # Unbound
            /\ calls'.replan_issues = <<verification_result.issues_found>>]_vars
    /\ [][verification_result' # verification_result =>
            calls'.verify = calls.verify + 1]_vars

\* C11 witness: the second cycle's Plan came from replan, which was handed
\* the issue of the failed dispatch that the first verification found.
C11_Witness ==
    /\ phase = "planned"
    /\ calls.process = 1
    /\ calls.replan = 1
    /\ calls.replan_issues # <<>>
    /\ \E issue \in calls.replan_issues[1] : issue.text = "Execução falhou: "

\* An exception raised by one of the four calls is in the hands of
\* process_task.
FaultRaised == phase = "except"

\* C12: a step in which planner.process, replan, executor.process or
\* verifier.process raises leads into the except branch of process_task,
\* whose next step returns a "failed" result carrying the text of the
\* exception, with the Task FAILED and one unsuccessful observation added to
\* the system metrics; no call is made after that and nothing is raised to
\* the caller.
C12_FaultCaughtAtOrchestrator ==
    /\ [][fault' # fault => FaultRaised']_vars
    /\ [][FaultRaised =>
            /\ ProcessTaskReturned'
            /\ task_status' = FAILED
            /\ summary'.status = "failed"
            /\ summary'.error = fault
            /\ system_metrics'.tasks_processed
                 = system_metrics.tasks_processed + 1
            /\ RatMul(system_metrics'.success_rate,
                      RatInt(system_metrics'.tasks_processed))
                 = RatMul(system_metrics.success_rate,
                          RatInt(system_metrics.tasks_processed))
            /\ calls' = calls]_vars
    /\ [](ProcessTaskReturned => (fault # None <=> summary.error # None))
    /\ [](phase # "raised")
    /\ [][ProcessTaskReturned => phase' = phase /\ calls' = calls]_vars

\* C12 witness: the verifier raised in the second cycle and process_task
\* returned the "failed" result with its text.
C12_Witness ==
    /\ ProcessTaskReturned
    /\ replanning_attempts = 1
    /\ calls.verify = 2
    /\ fault \in VerifierErrors
    /\ summary.error = fault
    /\ summary.status = "failed"
    /\ task_status = FAILED

\* C13 as claimed: a "failed" result returned after a VerificationResult
\* was produced in the call holds the final verification, with the issues
\* (and recommendations) of the latest VerificationResult, and the
\* execution summary, the fault of a later cycle included.
C13_FailedResultCarriesLastVerification ==
    (ProcessTaskReturned
       /\ summary.status = "failed"
       /\ verification_result # Unbound) =>
        /\ "final_verification" \in summary.keys
        /\ "execution_summary" \in summary.keys
        /\ summary.verification.issues_found = verification_result.issues_found

\* C14: in a call with max_replanning_attempts >= 0 the system metrics are
\* those of the new system until process_task returns, and change in the
\* returning step only; at the return tasks_processed has grown by exactly
\* 1, whatever the number of cycles, and the success observation recorded
\* is True exactly when the returned status is "completed".
C14_MetricsUpdatedOncePerCall ==
    max_replanning_attempts >= 0 =>
        /\ (~ProcessTaskReturned => system_metrics = InitialSystemMetrics)
        /\ (ProcessTaskReturned =>
              /\ system_metrics.tasks_processed = 1
              /\ system_metrics.success_rate =
                   RatInt(IF summary.status = "completed" THEN 1 ELSE 0)
              /\ summary.status \in {"completed", "failed"})

\* C14 witness: a call that went through two cycles returned "completed"
\* and the metrics hold one successful observation.
C14_Witness ==
    /\ ProcessTaskReturned
    /\ calls.execute = 2
    /\ summary.status = "completed"
    /\ system_metrics.tasks_processed = 1
    /\ system_metrics.success_rate = RatInt(1)

\* C18: in an Execute call on a new executor, as long as every result is
\* retained, tasks_completed is the number of ExecutionResults appended and
\* success_rate * tasks_completed is the number of them with success = True:
\* one observation per dispatch, failed or not.
C18_OneObservationPerDispatch ==
    ~results_dropped =>
        /\ executor_metrics.tasks_completed = Len(results)
        /\ IsMeanOf(executor_metrics.success_rate, Len(results),
                    Len(results) - NumFailures(results))

\* C18 witness: Execute has returned three results, one of them failed.
C18_Witness ==
    /\ Returned
    /\ ~results_dropped
    /\ Len(results) = 3
    /\ NumFailures(results) = 1
    /\ executor_metrics.tasks_completed = 3
    /\ executor_metrics.success_rate = [num |-> 2, den |-> 3]

\* The last result recorded for the SubTask id was successful.
LastResultSucceeded(rs, id) ==
    LET ks == {k \in 1..Len(rs) : rs[k].subtask_id = id}
        last == CHOOSE k \in ks : \A j \in ks : j <= k
    IN  rs[last].success

\* C29: the SubTask inside execute_subtask is IN_PROGRESS; the executed set
\* is the set of SubTasks with a successful result, and these are
\* COMPLETED; outside a dispatch no SubTask is IN_PROGRESS, in particular
\* when Execute has returned; a SubTask whose last dispatch failed is
\* FAILED and not in the executed set; a SubTask that was never dispatched
\* has the status it had at entry.
C29_StatusFollowsDispatch ==
    /\ pc \in {"work", "except"} => subtasks[current].status = IN_PROGRESS
    /\ executed_subtasks = SuccessIds(results)
    /\ \A i \in 1..Len(subtasks) :
          /\ subtasks[i].id \in executed_subtasks => subtasks[i].status = COMPLETED
          /\ (pc \notin {"work", "except"} \/ i # current) =>
                /\ subtasks[i].status # IN_PROGRESS
                /\ ~results_dropped =>
                      IF subtasks[i].id \in ResultIds(results)
                      THEN IF LastResultSucceeded(results, subtasks[i].id)
                           THEN subtasks[i].status = COMPLETED
                           ELSE /\ subtasks[i].status = FAILED
                                /\ subtasks[i].id \notin executed_subtasks
                      ELSE subtasks[i].status = entry_status[i]

\* C29 witness: Execute has returned; the first SubTask failed once and was
\* then COMPLETED, the second one was never dispatched and is still PENDING.
C29_Witness ==
    /\ Returned
    /\ ~results_dropped
    /\ NumFailures(results) = 1
    /\ Len(results) = 2
    /\ subtasks[1].status = COMPLETED
    /\ subtasks[1].id \in executed_subtasks
    /\ subtasks[2].id \notin ResultIds(results)
    /\ entry_status[2] = PENDING
    /\ subtasks[2].status = PENDING

(***************************************************************************)
(* The metrics over a sequence of observations: every operation of an      *)
(* agent ends in update_performance(execution_time, success), every        *)
(* process_task call that returns a result in                              *)
(* _update_system_metrics(completion_time, success, replanning_attempts).  *)
(***************************************************************************)
\* Bounds on the number of observations and on their durations.
MaxObservations == 3
MaxObservedTime == 2

\* Nothing of process_task is running; ph names what the system does.
OrchIdle(ph) ==
    /\ task = None
    /\ task_status = PENDING
    /\ max_replanning_attempts = 0
    /\ replanning_attempts = 0
    /\ plan = None
    /\ verification_result = Unbound
    /\ fault = None
    /\ summary = NoResult
    /\ planner_metrics = InitialPerformance
    /\ verifier_metrics = InitialPerformance
    /\ calls = NoCalls
    /\ phase = ph

\* A new system and a new agent.
MetricsInit ==
    /\ ExecIdle
    /\ OrchIdle("observing")
    /\ executor_metrics = InitialPerformance
    /\ system_metrics = InitialSystemMetrics
    /\ observations = <<>>
    /\ threads = <<>>
    /\ heap = <<>>
    /\ plan_log = <<>>
    /\ cancel_requested = FALSE

\* One more observation: update_performance(duration, success) on the
\* agent, _update_system_metrics(duration, success, attempts) on the system.
Observe(duration, success, attempts) ==
    /\ phase = "observing"
    /\ Len(observations) < MaxObservations
    /\ observations' = Append(observations,
                              [duration |-> duration, success |-> success,
                               attempts |-> attempts])
    /\ executor_metrics' = update_performance(executor_metrics, duration, success)
    /\ system_metrics' =
           update_system_metrics(system_metrics, duration, success, attempts)
    /\ UNCHANGED <<subtasks, entry_status, executed_subtasks, ready_subtasks,
                   round_executed, current, exception, results,
                   results_dropped, circular_logged, pc>>
    /\ UNCHANGED <<task, task_status, max_replanning_attempts,
                   replanning_attempts, plan, verification_result, fault,
                   summary, planner_metrics, verifier_metrics, calls, phase>>
    /\ UNCHANGED <<threads, heap, plan_log, cancel_requested>>

MetricsNext ==
    \E duration \in 0..MaxObservedTime, success \in BOOLEAN,
       attempts \in 0..MaxReplanning :
        Observe(duration, success, attempts)

MetricsSpec == MetricsInit /\ [][MetricsNext]_vars

\* Over the observations so far: their number with success = True, the sum
\* of their durations, their number with at least one replanning attempt.
NumSuccessful(obs) == Cardinality({k \in 1..Len(obs) : obs[k].success})
RECURSIVE SumDurations(_, _)
SumDurations(obs, k) ==
    IF k > Len(obs) THEN 0 ELSE obs[k].duration + SumDurations(obs, k + 1)
NumReplanned(obs) == Cardinality({k \in 1..Len(obs) : obs[k].attempts >= 1})

\* C16: after n >= 1 observations on new metrics, the count is n, the
\* success rate times n is the number of successful observations, the rate
\* lies in [0, 1], the average duration times n is the sum of the
\* durations, and n successful observations of one duration d give rate 1
\* and average d; for the agent's metrics and for the system's alike.
C16_IncrementalMeansExact ==
    LET n == Len(observations)
        agent == executor_metrics
        system == system_metrics
    IN  n >= 1 =>
          /\ agent.tasks_completed = n
          /\ IsMeanOf(agent.success_rate, n, NumSuccessful(observations))
          /\ IsMeanOf(agent.average_execution_time, n,
                      SumDurations(observations, 1))
          /\ agent.success_rate.num <= agent.success_rate.den
          /\ system.tasks_processed = n
          /\ IsMeanOf(system.success_rate, n, NumSuccessful(observations))
          /\ IsMeanOf(system.average_completion_time, n,
                      SumDurations(observations, 1))
          /\ system.success_rate.num <= system.success_rate.den
          /\ \A d \in 0..MaxObservedTime :
                (\A k \in 1..n : observations[k].success
                                   /\ observations[k].duration = d) =>
                    /\ agent.success_rate = RatInt(1)
                    /\ agent.average_execution_time = RatInt(d)
                    /\ system.success_rate = RatInt(1)
                    /\ system.average_completion_time = RatInt(d)

\* C16 witness: three observations, of durations 2, 0 and 2, the second
\* unsuccessful: rate 2/3 and average 4/3.
C16_Witness ==
    /\ Len(observations) = 3
    /\ observations[1].duration = 2 /\ observations[1].success
    /\ observations[2].duration = 0 /\ ~observations[2].success
    /\ observations[3].duration = 2 /\ observations[3].success
    /\ executor_metrics.success_rate = [num |-> 2, den |-> 3]
    /\ executor_metrics.average_execution_time = [num |-> 4, den |-> 3]

\* C17 as claimed: the replanning rate times tasks_processed is the number
\* of calls that used at least one replanning attempt, after calls that
\* needed none as well.
C17_ReplanningRateIsMean ==
    Len(observations) >= 1 =>
        IsMeanOf(system_metrics.replanning_rate, system_metrics.tasks_processed,
                 NumReplanned(observations))

(***************************************************************************)
(* _update_system_metrics run by two threads on one MultiAgentSystem.  The *)
(* method takes no lock; every statement reads self.system_metrics and     *)
(* writes it back in separate steps, and the threads may be switched       *)
(* between any two steps.                                                  *)
(***************************************************************************)
ThreadIds == {1, 2}

\* A thread about to run _update_system_metrics with the given arguments;
\* total_tasks is its local, register the value it has loaded.
ThreadFrames ==
    [pc : {"load_count"}, success : BOOLEAN, completion_time : ElapsedTimes,
     replanning_attempts : 0..MaxReplanning, total_tasks : {0},
     register : {RatInt(0)}]

ConcurrentInit ==
    /\ ExecIdle
    /\ OrchIdle("updating")
    /\ executor_metrics = InitialPerformance
    /\ system_metrics = InitialSystemMetrics
    /\ observations = <<>>
    /\ threads \in [ThreadIds -> ThreadFrames]
    /\ heap = <<>>
    /\ plan_log = <<>>
    /\ cancel_requested = FALSE

\* What a step of _update_system_metrics leaves alone.
OnlyMetricsChange ==
    /\ UNCHANGED exec_vars
    /\ UNCHANGED <<task, task_status, max_replanning_attempts,
                   replanning_attempts, plan, verification_result, fault,
                   summary, planner_metrics, verifier_metrics, calls, phase>>
    /\ UNCHANGED <<observations, heap, plan_log, cancel_requested>>

\* self.system_metrics["tasks_processed"] += 1, the load
LoadTasksProcessed(t) ==
    /\ phase = "updating"
    /\ threads[t].pc = "load_count"
    /\ threads' = [threads EXCEPT
                     ![t].register = RatInt(system_metrics.tasks_processed),
                     ![t].pc = "store_count"]
    /\ UNCHANGED system_metrics
    /\ OnlyMetricsChange

\* self.system_metrics["tasks_processed"] += 1, the store
StoreTasksProcessed(t) ==
    /\ phase = "updating"
    /\ threads[t].pc = "store_count"
    /\ system_metrics' =
           [system_metrics EXCEPT !.tasks_processed = threads[t].register.num + 1]
    /\ threads' = [threads EXCEPT ![t].pc = "read_total"]
    /\ OnlyMetricsChange

\* total_tasks = self.system_metrics["tasks_processed"]
ReadTotalTasks(t) ==
    /\ phase = "updating"
    /\ threads[t].pc = "read_total"
    /\ threads' = [threads EXCEPT
                     ![t].total_tasks = system_metrics.tasks_processed,
                     ![t].pc = "load_rate"]
    /\ UNCHANGED system_metrics
    /\ OnlyMetricsChange

\* current_successes = success_rate * (total_tasks - 1); if success: += 1
LoadSuccessRate(t) ==
    /\ phase = "updating"
    /\ threads[t].pc = "load_rate"
    /\ threads' = [threads EXCEPT
                     ![t].register =
                         RatAdd(RatMul(system_metrics.success_rate,
                                       RatInt(threads[t].total_tasks - 1)),
                                RatInt(IF threads[t].success THEN 1 ELSE 0)),
                     ![t].pc = "store_rate"]
    /\ UNCHANGED system_metrics
    /\ OnlyMetricsChange

\* self.system_metrics["success_rate"] = current_successes / total_tasks
StoreSuccessRate(t) ==
    /\ phase = "updating"
    /\ threads[t].pc = "store_rate"
    /\ system_metrics' =
           [system_metrics EXCEPT !.success_rate =
                RatDivInt(threads[t].register, threads[t].total_tasks)]
    /\ threads' = [threads EXCEPT ![t].pc = "load_avg"]
    /\ OnlyMetricsChange

\* current_avg = self.system_metrics["average_completion_time"]
LoadAverage(t) ==
    /\ phase = "updating"
    /\ threads[t].pc = "load_avg"
    /\ threads' = [threads EXCEPT
                     ![t].register = system_metrics.average_completion_time,
                     ![t].pc = "store_avg"]
    /\ UNCHANGED system_metrics
    /\ OnlyMetricsChange

\* average_completion_time = (current_avg * (total_tasks - 1)
\*                            + completion_time) / total_tasks,
\* then the test of replanning_attempts > 0
StoreAverage(t) ==
    /\ phase = "updating"
    /\ threads[t].pc = "store_avg"
    /\ system_metrics' =
           [system_metrics EXCEPT !.average_completion_time =
                RatDivInt(RatAdd(RatMul(threads[t].register,
                                        RatInt(threads[t].total_tasks - 1)),
                                 RatInt(threads[t].completion_time)),
                          threads[t].total_tasks)]
    /\ threads' = [threads EXCEPT
                     ![t].pc = IF threads[t].replanning_attempts > 0
                               THEN "load_replanning" ELSE "done"]
    /\ OnlyMetricsChange

\* current_replanning = replanning_rate * (total_tasks - 1); += 1
LoadReplanningRate(t) ==
    /\ phase = "updating"
    /\ threads[t].pc = "load_replanning"
    /\ threads' = [threads EXCEPT
                     ![t].register =
                         RatAdd(RatMul(system_metrics.replanning_rate,
                                       RatInt(threads[t].total_tasks - 1)),
                                RatInt(1)),
                     ![t].pc = "store_replanning"]
    /\ UNCHANGED system_metrics
    /\ OnlyMetricsChange

\* self.system_metrics["replanning_rate"] = current_replanning / total_tasks
StoreReplanningRate(t) ==
    /\ phase = "updating"
    /\ threads[t].pc = "store_replanning"
    /\ system_metrics' =
           [system_metrics EXCEPT !.replanning_rate =
                RatDivInt(threads[t].register, threads[t].total_tasks)]
    /\ threads' = [threads EXCEPT ![t].pc = "done"]
    /\ OnlyMetricsChange

ConcurrentNext ==
    \E t \in ThreadIds :
        \/ LoadTasksProcessed(t)
        \/ StoreTasksProcessed(t)
        \/ ReadTotalTasks(t)
        \/ LoadSuccessRate(t)
        \/ StoreSuccessRate(t)
        \/ LoadAverage(t)
        \/ StoreAverage(t)
        \/ LoadReplanningRate(t)
        \/ StoreReplanningRate(t)

ConcurrentSpec == ConcurrentInit /\ [][ConcurrentNext]_vars

\* Both _update_system_metrics calls have returned.
BothReturned == \A t \in ThreadIds : threads[t].pc = "done"

\* C15 as claimed: after both concurrent calls have returned,
\* tasks_processed has grown by exactly 2 and success_rate * tasks_processed
\* is the number of successful outcomes.
C15_AtomicMetricsUpdate ==
    BothReturned =>
        /\ system_metrics.tasks_processed = 2
        /\ IsMeanOf(system_metrics.success_rate, system_metrics.tasks_processed,
                    Cardinality({t \in ThreadIds : threads[t].success}))

(***************************************************************************)
(* agents/verification_agent.py: the scoring rules.  A list in a payload   *)
(* is modelled by its length (0 for an absent or empty one), a score by an *)
(* exact rational, a percentage or a code quality by its hundredths.       *)
(***************************************************************************)
\* Bound on the length of the result list handed to the verifier.
MaxResults == 2

Pct(hundredths) == Rat(hundredths, 100)
\* max(0.0, 1.0 - len(issues) * step), step in hundredths
Discount(issues, step) ==
    IF Cardinality(issues) * step >= 100 THEN RatInt(0)
    ELSE Pct(100 - Cardinality(issues) * step)
\* min(1.0, x + 0.1), x in hundredths and not negative
PlusTenth(hundredths) ==
    IF hundredths + 10 >= 100 THEN RatInt(1) ELSE Pct(hundredths + 10)
\* x >= y and x < y on rationals
RatGeq(x, y) == x.num * y.den >= y.num * x.den
RatLess(x, y) == ~RatGeq(x, y)

Verification(quality_score, accuracy_score, issues, type) ==
    [quality_score |-> quality_score, accuracy_score |-> accuracy_score,
     issues |-> issues, type |-> type]

\* _verify_analysis
verify_analysis(result) ==
    LET output == result.output
        required_fields ==
            {"requirements_identified", "stakeholders", "constraints", "risks"}
        issues ==
            {Issue("Campo obrigatório ausente ou vazio: ", field) :
                 field \in {f \in required_fields : output[f] = 0}}
            \cup (IF output.requirements_identified < 3
                  THEN {Issue("Número insuficiente de requisitos identificados", "")}
                  ELSE {})
    IN  Verification(Discount(issues, 20),
                     IF output.requirements_identified >= 3 THEN Pct(90) ELSE Pct(60),
                     issues, "analysis")

\* _verify_design
verify_design(result) ==
    LET output == result.output
        issues ==
            (IF ~output.architecture_pattern
             THEN {Issue("Padrão de arquitetura não especificado", "")} ELSE {})
            \cup (IF output.components < 2
                  THEN {Issue("Número insuficiente de componentes definidos", "")}
                  ELSE {})
            \cup (IF output.interfaces = 0
                  THEN {Issue("Interfaces não definidas", "")} ELSE {})
    IN  Verification(Discount(issues, 25),
                     IF output.components >= 3 THEN Pct(85) ELSE Pct(70),
                     issues, "design")

\* _verify_implementation
verify_implementation(result) ==
    LET output == result.output
        code_quality == output.code_quality_score
        issues ==
            (IF output.files_created < 3
             THEN {Issue("Número insuficiente de arquivos criados", "")} ELSE {})
            \cup (IF code_quality < 70
                  THEN {Issue("Qualidade do código baixa: ", ToString(code_quality))}
                  ELSE {})
            \cup (IF output.lines_of_code < 100
                  THEN {Issue("Implementação muito pequena", "")} ELSE {})
    IN  Verification(PlusTenth(code_quality),
                     IF output.lines_of_code >= 200 THEN Pct(90) ELSE Pct(70),
                     issues, "implementation")

\* _verify_testing
verify_testing(result) ==
    LET output == result.output
        tests_executed == output.tests_executed
        tests_passed == output.tests_passed
        coverage == output.coverage_percentage
        success_rate == Rat(tests_passed, tests_executed)
        issues ==
            (IF coverage < 80
             THEN {Issue("Cobertura de testes baixa: ", ToString(coverage))}
             ELSE {})
            \cup (IF tests_executed > 0
                  THEN IF RatLess(success_rate, Pct(90))
                       THEN {Issue("Taxa de sucesso dos testes baixa: ",
                                   ToString(success_rate.num) \o "/"
                                       \o ToString(success_rate.den))}
                       ELSE {}
                  ELSE {Issue("Nenhum teste executado", "")})
            \cup (IF output.bugs_found > 3
                  THEN {Issue("Muitos bugs encontrados: ", ToString(output.bugs_found))}
                  ELSE {})
    IN  Verification(PlusTenth(coverage),
                     IF tests_executed > 0 THEN success_rate ELSE RatInt(0),
                     issues, "testing")

\* ', '.join(missing_sections), in the order of required_sections
RECURSIVE Join(_)
Join(names) ==
    IF names = <<>> THEN ""
    ELSE IF Len(names) = 1 THEN names[1]
    ELSE names[1] \o ", " \o Join(Tail(names))

\* _verify_documentation
verify_documentation(result) ==
    LET output == result.output
        required_sections == <<"Introdução", "Instalação", "Uso">>
        present(section) == section \in output.sections
        missing_sections ==
            SelectSeq(required_sections, LAMBDA section : ~present(section))
        issues ==
            (IF output.documents_created < 2
             THEN {Issue("Número insuficiente de documentos criados", "")} ELSE {})
            \cup (IF output.pages_written < 10
                  THEN {Issue("Documentação muito breve", "")} ELSE {})
            \cup (IF missing_sections # <<>>
                  THEN {Issue("Seções obrigatórias ausentes: ", Join(missing_sections))}
                  ELSE {})
    IN  Verification(Discount(issues, 20),
                     IF output.pages_written >= 20 THEN Pct(90) ELSE Pct(70),
                     issues, "documentation")

\* _verify_setup
verify_setup(result) ==
    LET output == result.output
        issues ==
            (IF ~output.environment_configured
             THEN {Issue("Ambiente não configurado adequadamente", "")} ELSE {})
            \cup (IF output.tools_installed < 3
                  THEN {Issue("Ferramentas insuficientes instaladas", "")} ELSE {})
            \cup (IF output.config_files = 0
                  THEN {Issue("Arquivos de configuração não criados", "")} ELSE {})
    IN  Verification(Discount(issues, 30),
                     IF output.tools_installed >= 5 THEN Pct(95) ELSE Pct(80),
                     issues, "setup")

\* _verify_integration
verify_integration(result) ==
    LET output == result.output
        issues ==
            (IF output.modules_integrated < 2
             THEN {Issue("Número insuficiente de módulos integrados", "")} ELSE {})
            \cup (IF ~output.data_flow_verified
                  THEN {Issue("Fluxo de dados não verificado", "")} ELSE {})
            \cup (IF output.integration_tests_passed < 5
                  THEN {Issue("Testes de integração insuficientes", "")} ELSE {})
    IN  Verification(Discount(issues, 25),
                     IF output.integration_tests_passed >= 10 THEN Pct(90) ELSE Pct(70),
                     issues, "integration")

\* _verify_optimization; response_time_faster: the documented response time
\* (by default "0% faster") contains "faster"
verify_optimization(result) ==
    LET output == result.output
        issues ==
            (IF output.optimizations_applied < 2
             THEN {Issue("Número insuficiente de otimizações aplicadas", "")}
             ELSE {})
            \cup (IF ~output.performance_improvements
                  THEN {Issue("Melhorias de performance não documentadas", "")}
                  ELSE {})
            \cup (IF output.performance_improvements /\ ~output.response_time_faster
                  THEN {Issue("Tempo de resposta não melhorou", "")} ELSE {})
    IN  Verification(Discount(issues, 20),
                     IF output.optimizations_applied >= 3 THEN Pct(85) ELSE Pct(70),
                     issues, "optimization")

\* _verify_generic
verify_generic(result) ==
    LET issues ==
            (IF result.output.empty THEN {Issue("Resultado vazio", "")} ELSE {})
            \cup (IF result.execution_time > 300
                  THEN {Issue("Tempo de execução muito longo", "")} ELSE {})
    IN  Verification(IF issues = {} THEN Pct(70) ELSE Pct(40), Pct(60),
                     issues, "generic")

\* Mutant: the category rule is consulted for a failed result too.
verify_individual_result_by_type(result) ==
    LET output_type == result.output.type
    IN  CASE output_type = "analysis" -> verify_analysis(result)
          [] output_type = "design" -> verify_design(result)
          [] output_type = "implementation" -> verify_implementation(result)
          [] output_type = "testing" -> verify_testing(result)
          [] output_type = "documentation" -> verify_documentation(result)
          [] output_type = "setup" -> verify_setup(result)
          [] output_type = "integration" -> verify_integration(result)
          [] output_type = "optimization" -> verify_optimization(result)
          [] OTHER -> verify_generic(result)

\* _verify_individual_result
verify_individual_result(result) ==
    IF ~result.success
    THEN Verification(RatInt(0), RatInt(0), {FailedExecutionIssue(result)},
                      "failed_execution")
    ELSE LET output_type == result.output.type
         IN  CASE output_type = "analysis" -> verify_analysis(result)
               [] output_type = "design" -> verify_design(result)
               [] output_type = "implementation" -> verify_implementation(result)
               [] output_type = "testing" -> verify_testing(result)
               [] output_type = "documentation" -> verify_documentation(result)
               [] output_type = "setup" -> verify_setup(result)
               [] output_type = "integration" -> verify_integration(result)
               [] output_type = "optimization" -> verify_optimization(result)
               [] OTHER -> verify_generic(result)

\* sum(v[score] for v in verifications)
RECURSIVE SumScores(_, _, _)
SumScores(verifications, score, k) ==
    IF k > Len(verifications) THEN RatInt(0)
    ELSE RatAdd(verifications[k][score], SumScores(verifications, score, k + 1))

\* _calculate_overall_quality
calculate_overall_quality(verifications) ==
    IF verifications = <<>> THEN RatInt(0)
    ELSE RatDivInt(SumScores(verifications, "quality_score", 1), Len(verifications))

\* _calculate_overall_accuracy
calculate_overall_accuracy(verifications) ==
    IF verifications = <<>> THEN RatInt(0)
    ELSE RatDivInt(SumScores(verifications, "accuracy_score", 1), Len(verifications))

RECURSIVE TotalTime(_, _)
TotalTime(execution_results, k) ==
    IF k > Len(execution_results) THEN 0
    ELSE execution_results[k].execution_time + TotalTime(execution_results, k + 1)

\* _identify_issues: the issues of all verifications and the systemic ones,
\* without duplicates
identify_issues(verifications, execution_results) ==
    UNION {verifications[k].issues : k \in 1..Len(verifications)}
    \cup (IF 5 * NumFailures(execution_results) > Len(execution_results)
          THEN {Issue("Alta taxa de falhas na execução", "")} ELSE {})
    \cup (IF TotalTime(execution_results, 1) > 1800
          THEN {Issue("Tempo total de execução muito longo", "")} ELSE {})

\* quality_thresholds
minimum_quality_score == Pct(70)
minimum_accuracy_score == Pct(80)

\* Mutant: the accuracy threshold is not looked at.
meets_thresholds_quality_only(quality_score, accuracy_score) ==
    RatGeq(quality_score, minimum_quality_score)

\* _determine_pass_status: meets_quality and meets_accuracy
meets_thresholds(quality_score, accuracy_score) ==
    /\ RatGeq(quality_score, minimum_quality_score)
    /\ RatGeq(accuracy_score, minimum_accuracy_score)

\* The recommendations of one keyword rule, if an issue contains the keyword.
KeywordRule(issues, keyword, first, second) ==
    IF \E issue \in issues : Contains(issue, keyword)
    THEN <<first, second>> ELSE <<>>

\* low_quality_verifications are more than 30% of the verifications
ManyLowQuality(verifications) ==
    LET low_quality_verifications ==
            {k \in 1..Len(verifications) :
                 RatLess(verifications[k].quality_score, Pct(70))}
    IN  10 * Cardinality(low_quality_verifications) > 3 * Len(verifications)

\* _generate_recommendations, up to the test of an empty list
specific_recommendations(issues, verifications) ==
    KeywordRule(issues, "qualidade do código",
                "Implementar revisão de código mais rigorosa",
                "Usar ferramentas de análise estática de código")
    \o KeywordRule(issues, "cobertura",
                   "Aumentar cobertura de testes para pelo menos 80%",
                   "Implementar testes de integração adicionais")
    \o KeywordRule(issues, "documentação",
                   "Expandir documentação com mais detalhes",
                   "Adicionar exemplos práticos na documentação")
    \o KeywordRule(issues, "tempo",
                   "Otimizar processos para reduzir tempo de execução",
                   "Considerar paralelização de tarefas")
    \o (IF ManyLowQuality(verifications)
        THEN <<"Revisar processo de desenvolvimento para melhorar qualidade",
               "Implementar checkpoints de qualidade mais frequentes">>
        ELSE <<>>)

\* Mutant: no default recommendation.
generate_recommendations_no_default(issues, verifications) ==
    specific_recommendations(issues, verifications)

\* _generate_recommendations
generate_recommendations(issues, verifications) ==
    LET recommendations == specific_recommendations(issues, verifications)
    IN  IF recommendations = <<>>
        THEN <<"Manter padrão atual de qualidade">>
        ELSE recommendations

\* VerificationAgent.process, the try branch, on results with payloads
verifier_process(execution_results) ==
    LET individual_verifications ==
            [k \in 1..Len(execution_results) |->
                 verify_individual_result(execution_results[k])]
        overall_quality == calculate_overall_quality(individual_verifications)
        overall_accuracy == calculate_overall_accuracy(individual_verifications)
        issues == identify_issues(individual_verifications, execution_results)
    IN  [bound |-> TRUE,
         passed |-> determine_pass_status(
                        meets_thresholds(overall_quality, overall_accuracy), issues),
         quality_score |-> overall_quality,
         accuracy_score |-> overall_accuracy,
         issues_found |-> issues,
         recommendations |->
             generate_recommendations(issues, individual_verifications)]

\* The payloads: for every category one as the executor's work function
\* makes it and others that break a rule; a list stands as its length.
Outputs ==
    {[type |-> "analysis", requirements_identified |-> r, stakeholders |-> 3,
      constraints |-> 3, risks |-> 3] : r \in {0, 4}}
    \cup {[type |-> "design", architecture_pattern |-> TRUE, components |-> c,
           interfaces |-> 2] : c \in {1, 3}}
    \cup {[type |-> "implementation", files_created |-> 5, lines_of_code |-> l,
           code_quality_score |-> q] : l \in {50, 200}, q \in {65, 95}}
    \cup {[type |-> "testing", tests_executed |-> 0, tests_passed |-> 0,
           coverage_percentage |-> 95, bugs_found |-> 0],
          [type |-> "testing", tests_executed |-> 15, tests_passed |-> 12,
           coverage_percentage |-> 75, bugs_found |-> 0],
          [type |-> "testing", tests_executed |-> 15, tests_passed |-> 15,
           coverage_percentage |-> 95, bugs_found |-> 5],
          [type |-> "testing", tests_executed |-> 15, tests_passed |-> 48,
           coverage_percentage |-> 95, bugs_found |-> 0]}
    \cup {[type |-> "documentation", documents_created |-> 4, pages_written |-> 20,
           sections |-> {"Introdução", "Instalação", "Uso", "API"}],
          [type |-> "documentation", documents_created |-> 1, pages_written |-> 5,
           sections |-> {"Uso"}]}
    \cup {[type |-> "setup", environment_configured |-> e, tools_installed |-> 5,
           config_files |-> 3] : e \in BOOLEAN}
    \cup {[type |-> "integration", modules_integrated |-> 3,
           data_flow_verified |-> TRUE, integration_tests_passed |-> t] :
              t \in {4, 12}}
    \cup {[type |-> "optimization", optimizations_applied |-> 4,
           performance_improvements |-> TRUE, response_time_faster |-> f] :
              f \in BOOLEAN}
    \cup {[type |-> "unknown", empty |-> e] : e \in BOOLEAN}

\* The ExecutionResults handed to the verifier: successful ones with a
\* payload, a slow one, and failed ones, without and with a payload.
VerifierInputs ==
    {[subtask_id |-> 1, success |-> TRUE, output |-> output,
      error_message |-> None, execution_time |-> 1] : output \in Outputs}
    \cup {[subtask_id |-> 1, success |-> TRUE,
           output |-> [type |-> "unknown", empty |-> FALSE],
           error_message |-> None, execution_time |-> 2000]}
    \cup {[subtask_id |-> 1, success |-> FALSE,
           output |-> [type |-> "unknown", empty |-> TRUE],
           error_message |-> "boom", execution_time |-> 1],
          [subtask_id |-> 1, success |-> FALSE,
           output |-> [type |-> "testing", tests_executed |-> 15,
                       tests_passed |-> 15, coverage_percentage |-> 95,
                       bugs_found |-> 0],
           error_message |-> "timeout", execution_time |-> 1]}

\* The payloads the work functions of the executor return; a value drawn
\* with random is one of the two ends of its range.
execute_analysis ==
    {[type |-> "analysis", requirements_identified |-> 4, stakeholders |-> 3,
      constraints |-> 3, risks |-> 3]}
execute_design ==
    {[type |-> "design", architecture_pattern |-> TRUE, components |-> 3,
      interfaces |-> 2]}
execute_implementation ==
    {[type |-> "implementation", files_created |-> 5, lines_of_code |-> l,
      code_quality_score |-> q] : l \in {200, 800}, q \in {70, 95}}
execute_testing ==
    {[type |-> "testing", tests_executed |-> e, tests_passed |-> p,
      coverage_percentage |-> c, bugs_found |-> b] :
         e \in {15, 50}, p \in {12, 48}, c \in {75, 95}, b \in {0, 5}}
execute_documentation ==
    {[type |-> "documentation", documents_created |-> 4, pages_written |-> n,
      sections |-> {"Introdução", "Instalação", "Configuração", "Uso",
                    "API Reference", "Troubleshooting"}] : n \in {10, 50}}

\* _determine_strategy and execution_strategies on the titles of the
\* sequential template: the work function of each of its five SubTasks.
SequentialWork ==
    <<execute_analysis, execute_design, execute_implementation,
      execute_testing, execute_documentation>>

\* The result lists of an Execute call on the sequential Plan in which
\* every work function returned.
SequentialRuns ==
    {[i \in 1..5 |->
         [subtask_id |-> i, success |-> TRUE, output |-> outputs[i],
          error_message |-> None, execution_time |-> 1]] :
        outputs \in {o \in [1..5 -> UNION {SequentialWork[i] : i \in 1..5}] :
                        \A i \in 1..5 : o[i] \in SequentialWork[i]}}

\* The same with a first dispatch of the first SubTask that raised: the
\* SubTask is ready again in the next round, so its failed result is
\* followed by the five successful ones.
RetriedRuns ==
    {<<[subtask_id |-> 1, success |-> FALSE,
        output |-> [type |-> "unknown", empty |-> TRUE],
        error_message |-> "boom", execution_time |-> 1]>> \o run :
        run \in SequentialRuns}

ResultLists ==
    UNION {[1..n -> VerifierInputs] : n \in 0..MaxResults}
        \cup SequentialRuns \cup RetriedRuns

\* The verifier is about to be called on a list of results.
VerifyInit ==
    /\ results \in ResultLists
    /\ subtasks = <<>>
    /\ entry_status = <<>>
    /\ executed_subtasks = {}
    /\ ready_subtasks = <<>>
    /\ round_executed = {}
    /\ current = 0
    /\ exception = None
    /\ results_dropped = FALSE
    /\ circular_logged = FALSE
    /\ pc = "idle"
    /\ OrchIdle("verifying")
    /\ executor_metrics = InitialPerformance
    /\ system_metrics = InitialSystemMetrics
    /\ observations = <<>>
    /\ threads = <<>>
    /\ heap = <<>>
    /\ plan_log = <<>>
    /\ cancel_requested = FALSE

\* verification_result = self.verifier.process(execution_results, task)
VerifierProcess(elapsed) ==
    /\ phase = "verifying"
    /\ verification_result = Unbound
    /\ verification_result' = verifier_process(results)
    /\ verifier_metrics' = update_performance(verifier_metrics, elapsed, TRUE)
    /\ UNCHANGED exec_vars
    /\ UNCHANGED <<task, task_status, max_replanning_attempts,
                   replanning_attempts, plan, fault, summary, system_metrics,
                   planner_metrics, calls, phase>>
    /\ UNCHANGED aux_vars

VerifyNext == \E elapsed \in ElapsedTimes : VerifierProcess(elapsed)

VerifySpec == VerifyInit /\ [][VerifyNext]_vars

\* the verifier has returned a VerificationResult
Verified == phase = "verifying" /\ verification_result # Unbound
InUnitInterval(x) == RatGeq(x, RatInt(0)) /\ RatGeq(RatInt(1), x)

\* C19 as claimed: for every list of ExecutionResults the returned
\* quality_score and accuracy_score lie in [0, 1], and both are 0 for the
\* empty list.
C19_ScoresInUnitInterval ==
    Verified =>
        /\ InUnitInterval(verification_result.quality_score)
        /\ InUnitInterval(verification_result.accuracy_score)
        /\ results = <<>> =>
               /\ verification_result.quality_score = RatInt(0)
               /\ verification_result.accuracy_score = RatInt(0)

\* C20: the verifier returns passed = True exactly when the aggregate
\* quality_score is at least 0.7, the aggregate accuracy_score is at least
\* 0.8 and no issue of the deduplicated issue set contains one of the
\* critical-failure keywords; otherwise passed = False.
C20_PassRule ==
    Verified =>
        (verification_result.passed <=>
            /\ 10 * verification_result.quality_score.num
                   >= 7 * verification_result.quality_score.den
            /\ 10 * verification_result.accuracy_score.num
                   >= 8 * verification_result.accuracy_score.den
            /\ \A issue \in verification_result.issues_found :
                   /\ ~Contains(issue, "falhou")
                   /\ ~Contains(issue, "crítico")
                   /\ ~Contains(issue, "erro fatal"))

\* C20 witness: two results verified and passed although an issue, none of
\* them critical, was found.
C20_Witness ==
    /\ Verified
    /\ Len(results) = 2
    /\ verification_result.passed
    /\ verification_result.issues_found # {}

\* The verifications of the successful results of rs, in order.
SuccessfulVerifications(rs) ==
    LET succeeded == SelectSeq(rs, LAMBDA result : result.success)
    IN  [k \in 1..Len(succeeded) |-> verify_individual_result(succeeded[k])]

\* C21: a result with success = False is verified as quality 0, accuracy 0
\* and the one issue "Execução falhou: <error_message>", of type
\* failed_execution, whatever its output; so the aggregate scores times the
\* number of results are the sums over the successful results alone, and
\* the issue is among the issues found.
C21_FailedResultScoresZero ==
    Verified =>
        /\ \A k \in 1..Len(results) :
              ~results[k].success =>
                  /\ verify_individual_result(results[k]) =
                         Verification(RatInt(0), RatInt(0),
                             {Issue("Execução falhou: ", results[k].error_message)},
                             "failed_execution")
                  /\ Issue("Execução falhou: ", results[k].error_message)
                         \in verification_result.issues_found
        /\ RatMul(verification_result.quality_score, RatInt(Len(results))) =
               SumScores(SuccessfulVerifications(results), "quality_score", 1)
        /\ RatMul(verification_result.accuracy_score, RatInt(Len(results))) =
               SumScores(SuccessfulVerifications(results), "accuracy_score", 1)

\* C21 witness: a failed result that carries a testing payload was verified
\* together with a successful one.
C21_Witness ==
    /\ Verified
    /\ Len(results) = 2
    /\ ~results[1].success
    /\ results[1].output.type = "testing"
    /\ results[2].success
    /\ verification_result.quality_score # RatInt(0)

\* No issue found contains a keyword of the recommendation rules.
NoKeywordIssue ==
    \A issue \in verification_result.issues_found :
        \A keyword \in {"qualidade do código", "cobertura", "documentação", "tempo"} :
            ~Contains(issue, keyword)

\* The verifications of all results, as process collects them.
IndividualVerifications(rs) ==
    [k \in 1..Len(rs) |-> verify_individual_result(rs[k])]

\* C22 as claimed: the recommendation list is never empty, and when no
\* issue contains a keyword of the rule table it is the single
\* recommendation "Manter padrão atual de qualidade".
C22_Original ==
    Verified =>
        /\ verification_result.recommendations # <<>>
        /\ NoKeywordIssue =>
               verification_result.recommendations =
                   <<"Manter padrão atual de qualidade">>

\* C22 amended: the recommendation list is never empty; it is the single
\* recommendation "Manter padrão atual de qualidade" exactly when no issue
\* contains a keyword of the rule table and at most 30% of the results were
\* verified with a quality below 0.7, and does not contain it otherwise.
C22_MaintainUnlessKeywordOrLowQuality ==
    Verified =>
        LET recommendations == verification_result.recommendations
            maintain == "Manter padrão atual de qualidade"
        IN  /\ recommendations # <<>>
            /\ IF NoKeywordIssue /\ ~ManyLowQuality(IndividualVerifications(results))
               THEN recommendations = <<maintain>>
               ELSE \A k \in 1..Len(recommendations) : recommendations[k] # maintain

\* C22 witness: two results verified, an issue found, none with a keyword
\* and no low quality: the single recommendation.
C22_Witness ==
    /\ Verified
    /\ Len(results) = 2
    /\ verification_result.issues_found # {}
    /\ verification_result.recommendations = <<"Manter padrão atual de qualidade">>

(***************************************************************************)
(* The planner called again and again for one Task: process once, then     *)
(* replan with the issues of a verification, the executor marking SubTasks *)
(* of the current Plan in between.  SubTasks are objects: a Plan holds     *)
(* their addresses in the heap, and replan changes estimated_time in place *)
(* on the objects its strategy function returned.                          *)
(***************************************************************************)
\* Bounds on the number of planner calls and of SubTasks the executor marks.
MaxPlannerCalls == 3
MaxMarks == 1

\* Well-formed Tasks over every combination of the complexity factors.
PlannerTasks ==
    {Task(priority, n_requirements, n_words, keywords, TRUE) :
        priority \in TaskPriority, n_requirements \in {2, 6},
        n_words \in {10, 101}, keywords \in SUBSET {"integração", "api"}}

\* Issue lists handed to replan: none, one of neither flavour, one about
\* time, one about quality, both.
ReplanIssues ==
    {{}, {Issue("Execução falhou: ", "boom")}} \cup (SUBSET PayloadIssues)

\* Mutant: a strategy function hands out the SubTask objects it made for
\* an earlier Plan of the same strategy.
strategy_objects_cached(h, log, strategy) ==
    IF \E k \in 1..Len(log) : log[k].strategy = strategy
    THEN LET k == CHOOSE k \in 1..Len(log) : log[k].strategy = strategy
         IN  [heap |-> h, addresses |-> log[k].addresses]
    ELSE [heap |-> h \o planning_strategies(strategy),
          addresses |-> [i \in 1..Len(planning_strategies(strategy)) |-> Len(h) + i]]

\* self.planning_strategies[strategy](task): new SubTask objects built from
\* the literals of the template, and their addresses.
strategy_objects(h, log, strategy) ==
    [heap |-> h \o planning_strategies(strategy),
     addresses |-> [i \in 1..Len(planning_strategies(strategy)) |-> Len(h) + i]]

\* The SubTasks of a logged Plan as they are now.
SubTasksOf(h, entry) == [i \in 1..Len(entry.addresses) |-> h[entry.addresses[i]]]

PlanInit ==
    /\ ExecIdle
    /\ task \in PlannerTasks
    /\ task_status = PENDING
    /\ max_replanning_attempts = 0
    /\ replanning_attempts = 0
    /\ plan = None
    /\ verification_result = Unbound
    /\ fault = None
    /\ summary = NoResult
    /\ planner_metrics = InitialPerformance
    /\ verifier_metrics = InitialPerformance
    /\ calls = NoCalls
    /\ phase = "planner"
    /\ executor_metrics = InitialPerformance
    /\ system_metrics = InitialSystemMetrics
    /\ observations = <<>>
    /\ threads = <<>>
    /\ heap = <<>>
    /\ plan_log = <<>>
    /\ cancel_requested = FALSE

\* What a step of the planner leaves alone.
OnlyPlansChange ==
    /\ UNCHANGED exec_vars
    /\ UNCHANGED <<task, task_status, max_replanning_attempts,
                   replanning_attempts, verification_result, fault, summary,
                   system_metrics, verifier_metrics, calls, phase>>
    /\ UNCHANGED <<observations, threads, cancel_requested>>

\* for subtask in subtasks: subtask.estimated_time = int(... * 1.2), from
\* the i-th object on
RECURSIVE add_buffer(_, _, _)
add_buffer(h, addresses, i) ==
    IF i > Len(addresses) THEN h
    ELSE add_buffer([h EXCEPT ![addresses[i]].estimated_time = buffered(@)],
                    addresses, i + 1)

\* A log entry for the Plan returned over the objects at the addresses;
\* returned keeps the SubTasks as they were when the call returned.
LogEntry(call, issues, h, addresses, strategy) ==
    [call |-> call, issues |-> issues, addresses |-> addresses,
     strategy |-> strategy,
     returned |-> [i \in 1..Len(addresses) |-> h[addresses[i]]],
     estimated_total_time |->
         SumEstimated([i \in 1..Len(addresses) |-> h[addresses[i]]], 1)]

\* plan = self.planner.process(task), the try branch
PlannerProcess(elapsed) ==
    /\ phase = "planner"
    /\ plan_log = <<>>
    /\ LET strategy == choose_strategy(analyze_complexity(task), task.priority)
           made == strategy_objects(heap, plan_log, strategy)
       IN  /\ heap' = made.heap
           /\ plan_log' = Append(plan_log,
                  LogEntry("process", {}, heap', made.addresses, strategy))
           /\ plan' = Plan(SubTasksOf(heap', plan_log'[Len(plan_log')]), strategy)
    /\ planner_metrics' = update_performance(planner_metrics, elapsed, TRUE)
    /\ OnlyPlansChange

\* plan = self.planner.replan(task, issues)
PlannerReplan(issues) ==
    /\ phase = "planner"
    /\ plan_log # <<>>
    /\ Len(plan_log) < MaxPlannerCalls
    /\ LET strategy == replan_strategy(issues)
           made == strategy_objects(heap, plan_log, strategy)
       IN  /\ heap' = add_buffer(made.heap, made.addresses, 1)
           /\ plan_log' = Append(plan_log,
                  LogEntry("replan", issues, heap', made.addresses, strategy))
           /\ plan' = Plan(SubTasksOf(heap', plan_log'[Len(plan_log')]), strategy)
    /\ UNCHANGED planner_metrics
    /\ OnlyPlansChange

\* The executor, running the current Plan, sets the status of its first
\* PENDING SubTask after the dispatch.
ExecutorMarks(st) ==
    /\ phase = "planner"
    /\ plan_log # <<>>
    /\ Cardinality({a \in 1..Len(heap) : heap[a].status # PENDING}) < MaxMarks
    /\ LET addresses == plan_log[Len(plan_log)].addresses
           pending == {i \in 1..Len(addresses) : heap[addresses[i]].status = PENDING}
       IN  /\ pending # {}
           /\ LET i == CHOOSE i \in pending : \A j \in pending : i <= j
              IN  heap' = [heap EXCEPT ![addresses[i]].status = st]
    /\ UNCHANGED <<plan_log, plan, planner_metrics>>
    /\ OnlyPlansChange

PlanNext ==
    \/ \E elapsed \in ElapsedTimes : PlannerProcess(elapsed)
    \/ \E issues \in ReplanIssues : PlannerReplan(issues)
    \/ \E st \in {COMPLETED, FAILED} : ExecutorMarks(st)

PlanSpec == PlanInit /\ [][PlanNext]_vars

\* The calls of replan logged so far.
ReplanCalls == {k \in 1..Len(plan_log) : plan_log[k].call = "replan"}
TimeFlavoured(issues) == \E issue \in issues : Contains(issue, "tempo")
QualityFlavoured(issues) == \E issue \in issues : Contains(issue, "qualidade")

\* C23: every Plan returned by replan has the strategy "parallel" if an
\* issue of the call mentions time (also when another mentions quality),
\* else "hybrid" if one mentions quality, else "sequential" (also for no
\* issue at all), whatever the complexity and the priority of the Task.
C23_ReplanStrategyFromIssues ==
    \A k \in ReplanCalls :
        plan_log[k].strategy =
            IF TimeFlavoured(plan_log[k].issues) THEN "parallel"
            ELSE IF QualityFlavoured(plan_log[k].issues) THEN "hybrid"
            ELSE "sequential"

\* C23 witness: for a CRITICAL Task, first planned "hybrid", replan was
\* called with a time and a quality issue and then with no issue.
C23_Witness ==
    /\ Len(plan_log) = 3
    /\ task.priority = CRITICAL
    /\ plan_log[1].strategy = "hybrid"
    /\ TimeFlavoured(plan_log[2].issues) /\ QualityFlavoured(plan_log[2].issues)
    /\ plan_log[2].strategy = "parallel"
    /\ plan_log[3].issues = {}
    /\ plan_log[3].strategy = "sequential"

\* What C24 compares of a SubTask.
Essence(subtask) ==
    [id |-> subtask.id, title |-> subtask.title,
     dependencies |-> subtask.dependencies,
     estimated_time |-> subtask.estimated_time]

\* C24: two replan calls for the same Task with the same issues return
\* Plans with the same strategy, the same SubTask ids, titles, dependencies
\* and buffered estimated times and the same estimated_total_time, whatever
\* the planner and the executor did in between.
C24_ReplanIdempotent ==
    \A j, k \in ReplanCalls :
        plan_log[j].issues = plan_log[k].issues =>
            /\ plan_log[j].strategy = plan_log[k].strategy
            /\ Len(plan_log[j].returned) = Len(plan_log[k].returned)
            /\ \A i \in 1..Len(plan_log[j].returned) :
                   Essence(plan_log[j].returned[i]) = Essence(plan_log[k].returned[i])
            /\ plan_log[j].estimated_total_time = plan_log[k].estimated_total_time

\* C24 witness: replan was called twice with the same quality issue, the
\* executor having marked a SubTask of the first of the two Plans.
C24_Witness ==
    /\ Len(plan_log) = 3
    /\ plan_log[2].call = "replan"
    /\ plan_log[3].call = "replan"
    /\ plan_log[2].issues = plan_log[3].issues
    /\ QualityFlavoured(plan_log[2].issues)
    /\ heap[plan_log[2].addresses[1]].status # PENDING
    /\ plan_log[3].estimated_total_time = plan_log[2].estimated_total_time

\* round(t * 1.2): the nearest integer (12 t is even, so no tie arises).
RoundedBuffer(t) == (12 * t + 5) \div 10

\* C25: in every Plan returned by replan each SubTask's estimated time is
\* round(t * 1.2), t being the estimate of the same SubTask in the template
\* of the chosen strategy, and estimated_total_time is the sum of these
\* buffered estimates.
C25_BufferedEstimates ==
    \A k \in ReplanCalls :
        LET template == planning_strategies(plan_log[k].strategy)
            returned == plan_log[k].returned
        IN  /\ Len(returned) = Len(template)
            /\ \A i \in 1..Len(returned) :
                   /\ returned[i].id = template[i].id
                   /\ returned[i].estimated_time =
                          RoundedBuffer(template[i].estimated_time)
            /\ plan_log[k].estimated_total_time = SumEstimated(returned, 1)

\* C25 witness: replan returned a "parallel" Plan after an earlier
\* "parallel" Plan: "Implementação Core" is estimated at 108 (from 90) and
\* the total at 516 (from 430).
C25_Witness ==
    /\ Len(plan_log) = 3
    /\ plan_log[2].strategy = "parallel"
    /\ plan_log[3].call = "replan"
    /\ plan_log[3].strategy = "parallel"
    /\ plan_log[3].returned[5].estimated_time = 108
    /\ plan_log[3].estimated_total_time = 516

\* The complexity score of the Task: one point for each factor.
ComplexityScore ==
      (IF task.n_requirements > 5 THEN 1 ELSE 0)
    + (IF task.n_words > 100 THEN 1 ELSE 0)
    + (IF task.priority = HIGH \/ task.priority = CRITICAL THEN 1 ELSE 0)
    + (IF "integração" \in task.keywords THEN 1 ELSE 0)
    + (IF "api" \in task.keywords THEN 1 ELSE 0)

\* process has returned the first Plan.
Decomposed == plan_log # <<>> /\ plan_log[1].call = "process"

\* C26: the Plan returned by process has the strategy "hybrid" iff the
\* score is at least 3 or the priority is CRITICAL, otherwise "parallel" iff
\* the score is at least 1, otherwise "sequential"; a LOW Task with 2
\* requirements and a short description without keyword gets
\* "sequential", a HIGH one never.
C26_DecomposeStrategy ==
    Decomposed =>
        LET strategy == plan_log[1].strategy
        IN  /\ strategy = "hybrid" <=>
                   (ComplexityScore >= 3 \/ task.priority = CRITICAL)
            /\ strategy = "parallel" <=>
                   (ComplexityScore \in {1, 2} /\ task.priority # CRITICAL)
            /\ strategy = "sequential" <=>
                   (ComplexityScore = 0 /\ task.priority # CRITICAL)
            /\ task = Task(LOW, 2, 10, {}, TRUE) => strategy = "sequential"
            /\ task.priority = HIGH => strategy # "sequential"

\* C26 witness: a CRITICAL Task of score 1 was planned "hybrid".
C26_Witness ==
    /\ Decomposed
    /\ task.priority = CRITICAL
    /\ ComplexityScore = 1
    /\ plan_log[1].strategy = "hybrid"
    /\ Len(plan_log[1].returned) = 12

\* The SubTasks have pairwise distinct ids, every dependency is the id of
\* a SubTask of the list, and that SubTask has a strictly smaller order.
WellFormedPlan(sts) ==
    /\ \A i, j \in 1..Len(sts) : sts[i].id = sts[j].id => i = j
    /\ \A i \in 1..Len(sts) :
          \A d \in sts[i].dependencies :
              \E j \in 1..Len(sts) :
                  /\ sts[j].id = d
                  /\ sts[j].order < sts[i].order

\* C27: every Plan returned by process or by replan has SubTasks with
\* pairwise distinct ids whose dependencies all resolve inside the Plan, to
\* SubTasks of strictly smaller order; the order decreasing along every
\* dependency, no SubTask depends on itself through any chain.
C27_PlansWellFormed ==
    \A k \in 1..Len(plan_log) : WellFormedPlan(plan_log[k].returned)

\* C27 witness: Plans of all three strategies have been returned.
C27_Witness ==
    /\ Len(plan_log) = 3
    /\ {plan_log[k].strategy : k \in 1..3} = {"sequential", "parallel", "hybrid"}

\* The step is a return of replan.
ReplanReturns ==
    /\ Len(plan_log') = Len(plan_log) + 1
    /\ plan_log'[Len(plan_log')].call = "replan"

\* C30: a replan step returns a Plan over SubTask objects that did not
\* exist before, all PENDING, and leaves every SubTask object of every
\* earlier Plan as it was (status, estimated time, dependencies and the
\* rest).
C30_ReplanCreatesNewSubTasks ==
    [][ReplanReturns =>
           LET addresses == plan_log'[Len(plan_log')].addresses
           IN  /\ \A a \in 1..Len(heap) : heap'[a] = heap[a]
               /\ \A i \in 1..Len(addresses) :
                      /\ addresses[i] > Len(heap)
                      /\ heap'[addresses[i]].status = PENDING
               /\ \A k \in 1..Len(plan_log) : plan_log'[k] = plan_log[k]]_vars

\* C30 witness: replan has returned a Plan of the strategy of the first
\* Plan, whose first SubTask the executor had marked FAILED and which still
\* carries its unbuffered estimate.
C30_Witness ==
    /\ Len(plan_log) = 2
    /\ plan_log[2].call = "replan"
    /\ plan_log[2].strategy = plan_log[1].strategy
    /\ heap[plan_log[1].addresses[1]].status = FAILED
    /\ heap[plan_log[1].addresses[1]].estimated_time =
           planning_strategies(plan_log[1].strategy)[1].estimated_time
    /\ heap[plan_log[2].addresses[1]].status = PENDING

\* C28 as claimed, the first cycle: when the five work functions of the
\* sequential Plan have all returned, the VerificationResult has passed =
\* True (on which the "completed" result with no replanning attempt hangs).
C28_SequentialRunPasses ==
    (Verified /\ results \in SequentialRuns) => verification_result.passed

\* The successful results of the SubTask with the given id.
SuccessesOf(rs, id) == {k \in 1..Len(rs) : rs[k].success /\ rs[k].subtask_id = id}

\* C35: at every point of an Execute call each SubTask has at most one
\* successful result, and the SubTask inside a dispatch is not in the
\* executed set and has no successful result yet: a SubTask that was
\* COMPLETED and added to the executed set is not dispatched again.
C35_AtMostOneSuccessPerSubTask ==
    /\ \A i \in 1..Len(subtasks) :
          Cardinality(SuccessesOf(results, subtasks[i].id)) <= 1
    /\ pc \in {"work", "except"} =>
          /\ subtasks[current].id \notin executed_subtasks
          /\ SuccessesOf(results, subtasks[current].id) = {}

\* C35 witness: a later round dispatches a SubTask while another one is
\* already executed, with its successful result in the list.
C35_Witness ==
    /\ pc = "work"
    /\ round_executed # {}
    /\ \E i \in 1..Len(subtasks) :
          /\ i # current
          /\ subtasks[i].status = COMPLETED
          /\ Cardinality(SuccessesOf(results, subtasks[i].id)) = 1

\* C36: when the result list handed to the verifier holds a failed result,
\* the VerificationResult has passed = False, whatever the scores: the
\* issue of the failed result is among the issues found and contains the
\* critical keyword "falhou".
C36_FailedResultFailsVerification ==
    Verified =>
        \A k \in 1..Len(results) :
            ~results[k].success =>
                /\ ~verification_result.passed
                /\ FailedExecutionIssue(results[k]) \in verification_result.issues_found
                /\ Contains(FailedExecutionIssue(results[k]), "falhou")

\* C36 witness: a list with a failed result was verified and both
\* aggregate scores reach their thresholds, so the issue alone decides.
C36_Witness ==
    /\ Verified
    /\ \E k \in 1..Len(results) : ~results[k].success
    /\ meets_thresholds(verification_result.quality_score,
                        verification_result.accuracy_score)
    /\ ~verification_result.passed

\* The SubTasks that were COMPLETED when Execute started.
CompletedAtEntry == {i \in 1..Len(subtasks) : entry_status[i] = COMPLETED}

\* C37: a SubTask that is COMPLETED when Execute starts is never dispatched,
\* has no result and never enters the executed set, and a SubTask that
\* depends on it is never dispatched either; Execute on a Plan whose
\* SubTasks are all COMPLETED returns an empty result list with the
\* circular-dependency diagnostic.
C37_CompletedAtEntryIsSkipped ==
    /\ \A i \in CompletedAtEntry :
          /\ subtasks[i].status = COMPLETED
          /\ subtasks[i].id \notin executed_subtasks
          /\ subtasks[i].id \notin ResultIds(results)
          /\ current # i
          /\ \A j \in 1..Len(subtasks) :
                subtasks[i].id \in subtasks[j].dependencies =>
                    /\ current # j
                    /\ subtasks[j].id \notin ResultIds(results)
                    /\ subtasks[j].status = entry_status[j]
    /\ (Returned /\ CompletedAtEntry = 1..Len(subtasks)) =>
          /\ results = <<>>
          /\ circular_logged

\* C37 witness: Execute has returned on a Plan of two SubTasks without
\* dependencies that were both COMPLETED at entry.
C37_Witness ==
    /\ Returned
    /\ CompletedAtEntry = 1..Len(subtasks)
    /\ \A i \in 1..Len(subtasks) : subtasks[i].dependencies = {}
    /\ results = <<>>
    /\ circular_logged

\* C39: the buffer does not compound. In the Plan returned by the k-th
\* replan call, for every k, each SubTask's estimate is exactly 1.2 times
\* the template estimate of the chosen strategy (ten times the one is
\* twelve times the other), whatever replan calls came before; so two
\* replan calls that choose the same strategy return the same estimates.
C39_BufferDoesNotCompound ==
    \A k \in ReplanCalls :
        LET template == planning_strategies(plan_log[k].strategy)
        IN  /\ \A i \in 1..Len(template) :
                  10 * plan_log[k].returned[i].estimated_time
                      = 12 * template[i].estimated_time
            /\ \A l \in ReplanCalls :
                  plan_log[l].strategy = plan_log[k].strategy =>
                      \A i \in 1..Len(template) :
                          plan_log[l].returned[i].estimated_time
                              = plan_log[k].returned[i].estimated_time

\* C39 witness: the second replan call chose "hybrid" as the first did, and
\* "Análise Detalhada" is estimated at 54 (from 45) by both.
C39_Witness ==
    /\ Len(plan_log) = 3
    /\ plan_log[2].call = "replan"
    /\ plan_log[3].call = "replan"
    /\ plan_log[2].strategy = "hybrid"
    /\ plan_log[3].strategy = "hybrid"
    /\ plan_log[2].returned[1].estimated_time = 54
    /\ plan_log[3].returned[1].estimated_time = 54

(***************************************************************************)
(* A work function that does not return                                    *)
(***************************************************************************)
\* output = self.execution_strategies[strategy](subtask) is a plain call on
\* the thread of process: when the work function never returns, control
\* stays inside that call. execute_subtask starts no timer and no second
\* thread, so nothing leads out of "blocked".
WorkBlocks ==
    /\ phase = "executing"
    /\ pc = "work"
    /\ pc' = "blocked"
    /\ UNCHANGED <<subtasks, entry_status, executed_subtasks, ready_subtasks,
                   round_executed, current, exception, results,
                   results_dropped, circular_logged, executor_metrics>>
    /\ UNCHANGED orch_vars
    /\ UNCHANGED aux_vars

BlockingNext ==
    \/ ExecNext
    \/ WorkBlocks

\* ExecutionAgent.process with work functions that return, raise or block,
\* every step that can be taken being taken eventually.
BlockingExecSpec ==
    ExecInit /\ [][BlockingNext]_vars /\ WF_vars(BlockingNext)

\* C31 as claimed: a dispatch whose work function never returns does not
\* block Execute forever; the dispatch is ended (by a timeout) with a failed
\* ExecutionResult for its SubTask, after which the for loop goes on.
C31_BlockedDispatchTimesOut ==
    (pc = "blocked") ~>
        (/\ pc # "blocked"
         /\ \E k \in 1..Len(results) : ~results[k].success)

(***************************************************************************)
(* A caller that asks for cancellation                                     *)
(***************************************************************************)
\* The caller raises its cancellation signal while ExecutionAgent.process
\* runs. process(plan) and process_task(task, max_replanning_attempts) take
\* no token, event or flag and read none, so the request changes nothing
\* the program looks at.
RequestCancel ==
    /\ phase = "executing"
    /\ pc \in {"while", "for", "work", "except"}
    /\ ~cancel_requested
    /\ cancel_requested' = TRUE
    /\ UNCHANGED <<observations, threads, heap, plan_log>>
    /\ UNCHANGED exec_vars
    /\ UNCHANGED orch_vars

CancellableNext ==
    \/ ExecNext
    \/ RequestCancel

\* ExecutionAgent.process on any Plan, with a caller that may ask for
\* cancellation at any point of the call.
CancellableExecSpec == ExecInit /\ [][CancellableNext]_vars

\* A SubTask is handed to its work function.
Dispatches == pc = "for" /\ pc' = "work"
\* A round of the while loop is started.
StartsRound == pc = "while" /\ pc' = "for"

\* C32 as claimed: once the cancellation signal is raised, no new dispatch
\* and no new round is started (the dispatch in flight may still finish).
C32_NoDispatchAfterCancel ==
    [][cancel_requested => ~Dispatches /\ ~StartsRound]_vars

(***************************************************************************)
(* Malformed Tasks                                                         *)
(***************************************************************************)
\* A malformed item: its id is empty or its description is not a string.
Malformed(t) == t.id = "" \/ ~t.description_is_text

\* C33 as claimed: for a malformed Task the planner gives an error and no
\* Plan, and process_task makes no Execute and no Verify call.
C33_MalformedItemAbortsCycle ==
    Malformed(task) =>
        /\ subtasks = <<>>
        /\ calls.execute = 0
        /\ calls.verify = 0

(***************************************************************************)
(* What a "completed" result stands for                                    *)
(***************************************************************************)
\* The results of the SubTask with the given id.
ResultsOf(rs, id) == {k \in 1..Len(rs) : rs[k].subtask_id = id}

\* C34: when process_task has returned "completed", the result list of the
\* last Execute call holds exactly one result for each SubTask of the last
\* Plan, every result is successful, and every SubTask is COMPLETED.
C34_CompletedMeansAllExecuted ==
    (ProcessTaskReturned /\ summary.status = "completed") =>
        /\ ~results_dropped
        /\ subtasks # <<>>
        /\ Len(results) = Len(subtasks)
        /\ \A k \in 1..Len(results) : results[k].success
        /\ \A i \in 1..Len(subtasks) :
              /\ subtasks[i].status = COMPLETED
              /\ Cardinality(ResultsOf(results, subtasks[i].id)) = 1

\* C34 witness: "completed" returned for the hybrid Plan of the CRITICAL
\* Task, all twelve SubTasks executed.
C34_Witness ==
    /\ ProcessTaskReturned
    /\ summary.status = "completed"
    /\ task.priority = CRITICAL
    /\ Len(results) = 12
    /\ \A i \in 1..Len(subtasks) : subtasks[i].status = COMPLETED

(***************************************************************************)
(* Termination of process_task                                             *)
(***************************************************************************)
\* Control is inside ExecutionAgent.process, which has not returned yet.
InsideExecute == phase = "executing" /\ pc # "return"

\* C38: with max_replanning_attempts >= 0, process_task makes at most
\* max_replanning_attempts + 1 plan, Execute and Verify calls each; at every
\* point outside a running Execute call where it has not returned, a next
\* step of process_task exists (it never stops without returning); what it
\* returns is a summary whose status is "completed" or "failed"; at the
\* return the Task is COMPLETED if the summary says "completed" and FAILED
\* otherwise.
C38_TerminatesWithSummary ==
    max_replanning_attempts >= 0 =>
        /\ calls.process + calls.replan <= max_replanning_attempts + 1
        /\ calls.execute <= max_replanning_attempts + 1
        /\ calls.verify <= max_replanning_attempts + 1
        /\ (~ProcessTaskReturned /\ ~InsideExecute) => ENABLED OrchNext
        /\ ProcessTaskReturned =>
              /\ summary # NoResult
              /\ summary.status \in {"completed", "failed"}
              /\ (summary.status = "completed" <=> task_status = COMPLETED)
              /\ (summary.status = "failed" <=> task_status = FAILED)

\* C38 witness: with max_replanning_attempts = 1 the call used both cycles
\* and returned "completed" with the Task COMPLETED.
C38_Witness ==
    /\ ProcessTaskReturned
    /\ max_replanning_attempts = 1
    /\ calls.process = 1
    /\ calls.replan = 1
    /\ calls.execute = 2
    /\ calls.verify = 2
    /\ summary.status = "completed"
    /\ task_status = COMPLETED

=============================================================================
